---------------------------- MODULE Spec2Model ----------------------------
(***************************************************************************)
(* Manaknight compiler (mkd-node): a state-machine model of the scoped      *)
(* symbol table, the module resolver, the two lexers, the two parsers, the  *)
(* type checker and the compiler driver, with the properties the            *)
(* specification states about them.                                         *)
(*                                                                          *)
(* Every subsystem has its own specification (SpecSymbols, SpecModules,     *)
(* ...).  All specifications share one variable list; a specification       *)
(* leaves the variables of the other subsystems at their idle value.        *)
(***************************************************************************)
EXTENDS Integers, Sequences, FiniteSets, TLC

VARIABLES
    scopes,        \* symbol table: the chain global_scope .. current_scope,
                   \* each scope the ordered list of its symbols' names
    sym_last,      \* the last symbol-table call and what it returned
    sym_saved,     \* for each scope entered and not yet left, what
                   \* resolve_symbol returned for each name before enter_scope
    resolved_modules,  \* resolver->resolved_modules: records in order
    graph_modules,     \* dep_graph->modules: names in order of registration
    dependencies,      \* dep_graph->dependencies: the pairs <<i, j>> set true
    mod_last,          \* the last resolver call and what it returned
    resolver_alive,    \* FALSE once the resolver process has aborted
    lex_impl,      \* which lexer scans: "A" (next_token) or "B" (lexer_next_token)
    lex_source,    \* the source buffer, a sequence of characters
    lexer,         \* the Lexer struct: position, line, column
    lex_tokens,    \* the calls made so far: the token returned, with the
                   \* position on entry, at the token's start and on return
    diagnostics,   \* the codes the error reporter has recorded, in order
    parser_tokens, \* the token stream parser A reads, end-of-input last
    parser_pos,    \* index in parser_tokens of parser->current_token
    parser_iters,  \* the iterations the parsing loops have made so far
    parser_status, \* "parsing", "done", or "hung" in a loop that repeats
    parser_spin,   \* what one repetition of that loop reports
    mk_mode,       \* how mkc was called: "compile", "-c", "--format" or "-f"
    mk_readable,   \* whether access(input_file, R_OK) succeeds
    mk_phase,      \* where main is: "main", "compile", "parse", "report", "exit"
    current_token, \* parser->current_token of parser B
    program_module,\* the module parser B builds: functions and api routes
    null_productions,  \* productions of parser B that returned NULL
    error_count,   \* output->error_count
    exit_code,     \* what main returned, -1 while it runs
    js_code,       \* output->js_code, the strings appended to the buffer
    openapi_spec,  \* output->openapi_spec, the strings appended to the buffer
    tc_program,    \* the declarations of the module handed to the checker
    checker,       \* the TypeChecker: symbol table, has_errors, last result
    tc_next,       \* the declaration the second pass checks next
    tc_status,     \* "created", "checking", "passed" or "rejected"
    fmt_impl,      \* which formatter runs: "A" (format_program) or "B" (mkc)
    fmt_text,      \* the source text, then what each formatting run printed
    fmt_asts,      \* what each run parsed from the text it was given
    http_server_socket,   \* the global http_server_socket, -1 when unset
    http_server_running,  \* the global http_server_running
    http_server_thread,   \* where the worker thread is, "none" before it runs
    srv_main,      \* where the thread that starts and stops the server is
    srv_listening, \* whether the descriptor of the listening socket is open
    srv_backlog,   \* connections made and not yet accepted
    srv_accepts,   \* the accept calls made: the descriptor passed and where
                   \* manaknight_stop_http_server was at the call
    rt_input,      \* the arguments a runtime library function is called with
    rt_output      \* what the calls made so far returned, in order

symVars == <<scopes, sym_last, sym_saved>>
modVars == <<resolved_modules, graph_modules, dependencies, mod_last,
             resolver_alive>>

lexVars == <<lex_impl, lex_source, lexer, lex_tokens>>
parVars == <<parser_tokens, parser_pos, parser_iters, parser_status,
             parser_spin>>
tcVars == <<tc_program, checker, tc_next, tc_status>>
mkVars == <<mk_mode, mk_readable, mk_phase, current_token, program_module,
            null_productions, error_count, exit_code, js_code,
            openapi_spec>>

fmtVars == <<fmt_impl, fmt_text, fmt_asts>>
srvVars == <<http_server_socket, http_server_running, http_server_thread,
             srv_main, srv_listening, srv_backlog, srv_accepts>>
rtVars == <<rt_input, rt_output>>

vars == <<scopes, sym_last, sym_saved, resolved_modules, graph_modules, dependencies,
          mod_last, resolver_alive, lex_impl, lex_source, lexer, lex_tokens,
          diagnostics, parser_tokens, parser_pos, parser_iters, parser_status,
          parser_spin, mk_mode, mk_readable, mk_phase, current_token,
          program_module, null_productions, error_count, exit_code,
          tc_program, checker, tc_next, tc_status, js_code, openapi_spec,
          fmt_impl,
          fmt_text, fmt_asts, http_server_socket, http_server_running,
          http_server_thread, srv_main, srv_listening, srv_backlog,
          srv_accepts, rt_input, rt_output>>

\* what the actions of one subsystem leave alone
symOthers == <<modVars, lexVars, parVars, mkVars, tcVars, fmtVars,
               srvVars, rtVars, diagnostics>>
modOthers == <<symVars, lexVars, parVars, mkVars, tcVars, fmtVars,
               srvVars, rtVars, diagnostics>>
lexOthers == <<symVars, modVars, parVars, mkVars, tcVars, fmtVars,
               srvVars, rtVars>>
parOthers == <<symVars, modVars, lexVars, mkVars, tcVars, fmtVars,
               srvVars, rtVars>>
mkOthers == <<symVars, modVars, parVars, tcVars, fmtVars,
               srvVars, rtVars>>
tcOthers == <<symVars, modVars, lexVars, parVars, mkVars, fmtVars,
               srvVars, rtVars>>
fmtOthers == <<symVars, modVars, lexVars, parVars, mkVars, tcVars,
               srvVars, rtVars, diagnostics>>
srvOthers == <<symVars, modVars, lexVars, parVars, mkVars, tcVars,
               fmtVars, rtVars, diagnostics>>
rtOthers == <<symVars, modVars, lexVars, parVars, mkVars, tcVars,
              fmtVars, srvVars, diagnostics>>

(***************************************************************************)
(* Bounds of the model.                                                     *)
(***************************************************************************)
MaxDepth == 3          \* scopes nested below each other, global included
MaxSymbols == 3        \* symbols declared in one scope
MaxModules == 2        \* distinct module names offered to the resolver
MaxSrcLen == 3         \* characters in a source buffer given to a lexer
MaxTokens == 3         \* tokens that follow the opening of a token stream
MaxDiagnostics == 8    \* diagnostics after which a repeating loop is left alone
MaxRestLen == 2        \* characters that follow the opening of a source file
MaxCases == 2          \* cases of a match
MaxArity == 2          \* parameters of a function, arguments of a call
MaxRuns == 2           \* formatting runs made one on the output of the other
MaxDecls == 2          \* declarations in a module that is formatted
MaxBacklog == 3        \* connections that wait for the HTTP server's accept
MaxListLen == 3        \* elements of a list handed to mapList

(***************************************************************************)
(* Helpers on sequences.                                                    *)
(***************************************************************************)
Range(s) == {s[i] : i \in 1..Len(s)}

(***************************************************************************)
(*                         SYMBOL TABLE (symbols.c)                         *)
(***************************************************************************)
Names == {"x", "y"}

PreludeNames == <<"Option", "Result", "List", "Map", "Bool", "Int", "String">>

\* table->allow_shadows, set once by create_symbol_table and never changed
allow_shadows == FALSE

NoCall == [op |-> "none", name |-> "", ret |-> TRUE, code |-> 0]

\* create_symbol_table: one global scope, empty, which is the current scope
SymbolsInit ==
    /\ scopes = << <<>> >>
    /\ sym_last = NoCall
    /\ sym_saved = <<>>

SymbolsIdle == SymbolsInit

current_scope == scopes[Len(scopes)]

\* the symbol resolve_symbol returns: the first of that name in the scope at
\* depth d, else in its parents; <<0, 0>> is NULL
RECURSIVE symbol_resolved_from(_, _, _)
symbol_resolved_from(scs, d, name) ==
    IF d = 0 THEN <<0, 0>>
    ELSE IF \E i \in 1..Len(scs[d]) : scs[d][i] = name
    THEN <<d, CHOOSE i \in 1..Len(scs[d]) :
                 /\ scs[d][i] = name
                 /\ \A j \in 1..(i - 1) : scs[d][j] # name>>
    ELSE symbol_resolved_from(scs, d - 1, name)

\* resolve_symbol for every name, from the current scope
symbols_resolved(scs) ==
    [name \in Names |-> symbol_resolved_from(scs, Len(scs), name)]

\* an exit_scope that makes the global scope current
scopes_after_exit_to_global(scs) == <<scs[1]>>

\* the chain of scopes exit_scope leaves: the parent of the current scope
\* becomes current, and the global scope stays
scopes_after_exit(scs) ==
    IF Len(scs) = 1 THEN scs ELSE SubSeq(scs, 1, Len(scs) - 1)

symbol_exists_in_current_scope(name) ==
    \E i \in 1..Len(current_scope) : current_scope[i] = name

\* the symbols of the table after declare_symbol(name), and what it returns
declare_result(scs, name) ==
    LET cur == scs[Len(scs)]
        exists == \E i \in 1..Len(cur) : cur[i] = name
    IN  IF ~allow_shadows /\ exists
        THEN [scopes |-> scs, ret |-> FALSE, code |-> 2006]
        ELSE [scopes |-> [scs EXCEPT ![Len(scs)] = Append(cur, name)],
              ret |-> TRUE, code |-> 0]

enter_scope ==
    /\ UNCHANGED symOthers
    /\ Len(scopes) < MaxDepth
    /\ scopes' = Append(scopes, <<>>)
    /\ sym_saved' = Append(sym_saved, symbols_resolved(scopes))
    /\ sym_last' = [op |-> "enter_scope", name |-> "", ret |-> TRUE, code |-> 0]

exit_scope ==
    /\ UNCHANGED symOthers
    /\ scopes' = scopes_after_exit(scopes)
    /\ sym_saved' = IF sym_saved = <<>> THEN sym_saved
                    ELSE SubSeq(sym_saved, 1, Len(sym_saved) - 1)
    /\ sym_last' = [op |-> "exit_scope", name |-> "", ret |-> TRUE, code |-> 0]

declare_symbol ==
    \E name \in Names :
        /\ UNCHANGED symOthers
        /\ Len(current_scope) < MaxSymbols
        /\ LET r == declare_result(scopes, name)
           IN  /\ scopes' = r.scopes
               /\ UNCHANGED sym_saved
               /\ sym_last' = [op |-> "declare_symbol", name |-> name,
                               ret |-> r.ret, code |-> r.code]

NextSymbols == enter_scope \/ exit_scope \/ declare_symbol

(***************************************************************************)
(*                    MODULE RESOLVER (module_resolver.c)                   *)
(***************************************************************************)
ModulePool == <<"a", "b", "c", "d", "e">>
ModuleNames == {ModulePool[i] : i \in 1..MaxModules}

NoModCall == [op |-> "none", a |-> "", b |-> "", ret |-> TRUE, code |-> 0]

\* create_module_resolver / create_dependency_graph: everything empty
ModulesInit ==
    /\ resolved_modules = <<>>
    /\ graph_modules = <<>>
    /\ dependencies = {}
    /\ mod_last = NoModCall
    /\ resolver_alive = TRUE

ModulesIdle == ModulesInit

\* the index of a name in a list of names, 0 when absent (SIZE_MAX in the code)
IndexOf(names, name) ==
    IF \E i \in 1..Len(names) : names[i] = name
    THEN CHOOSE i \in 1..Len(names) : names[i] = name
    ELSE 0

\* add_module_to_graph: a name already registered is left alone; a new name
\* gets the next index, with its row and column of the matrix all false
add_module_to_graph(mods, name) ==
    IF IndexOf(mods, name) # 0 THEN mods ELSE Append(mods, name)

\* add_dependency_to_graph: the new matrix and the value returned
add_dependency_to_graph(mods, deps, from_module, to_module) ==
    LET from_idx == IndexOf(mods, from_module)
        to_idx == IndexOf(mods, to_module)
    IN  IF from_idx = 0 \/ to_idx = 0
        THEN [deps |-> deps, ret |-> FALSE]        \* module not found
        ELSE [deps |-> deps \cup {<<from_idx, to_idx>>}, ret |-> TRUE]

RECURSIVE dfs_loop(_, _, _, _, _)
RECURSIVE dfs_cycle_detect(_, _, _, _)

\* the for loop of dfs_cycle_detect at index i, with the marks so far
dfs_loop(deps, n, node_idx, i, st) ==
    IF i > n
    THEN [found |-> FALSE, visited |-> st.visited,
          rec_stack |-> st.rec_stack \ {node_idx}]
    ELSE IF <<node_idx, i>> \in deps
    THEN IF i \notin st.visited
         THEN LET r == dfs_cycle_detect(deps, n, i, st)
              IN  IF r.found THEN r
                  ELSE IF i \in r.rec_stack
                  THEN [r EXCEPT !.found = TRUE]
                  ELSE dfs_loop(deps, n, node_idx, i + 1, r)
         ELSE IF i \in st.rec_stack
         THEN [st EXCEPT !.found = TRUE]
         ELSE dfs_loop(deps, n, node_idx, i + 1, st)
    ELSE dfs_loop(deps, n, node_idx, i + 1, st)

dfs_cycle_detect(deps, n, node_idx, st) ==
    dfs_loop(deps, n, node_idx, 1,
             [found |-> FALSE, visited |-> st.visited \cup {node_idx},
              rec_stack |-> st.rec_stack \cup {node_idx}])

\* a search that looks at the start module's own edge only
detect_cycle_shallow(mods, deps, start_module) ==
    <<IndexOf(mods, start_module), IndexOf(mods, start_module)>> \in deps

detect_cycle(mods, deps, start_module) ==
    LET start_idx == IndexOf(mods, start_module)
    IN  IF start_idx = 0 THEN FALSE
        ELSE dfs_cycle_detect(deps, Len(mods), start_idx,
                 [found |-> FALSE, visited |-> {}, rec_stack |-> {}]).found

has_circular_dependency(mods, deps, module_name) ==
    detect_cycle(mods, deps, module_name)

\* add_dependency: the cycle check runs from the dependent on the graph as
\* it is before the edge is added
add_dependency_result(mods, deps, dependent, dependency) ==
    IF has_circular_dependency(mods, deps, dependent)
    THEN [deps |-> deps, ret |-> FALSE, code |-> 5004]
    ELSE LET r == add_dependency_to_graph(mods, deps, dependent, dependency)
         IN  [deps |-> r.deps, ret |-> r.ret, code |-> 0]

\* a cache search that looks at the module resolved last only
IsResolved_last(name) ==
    /\ resolved_modules # <<>>
    /\ resolved_modules[Len(resolved_modules)].module_name = name

IsResolved(name) ==
    \E i \in 1..Len(resolved_modules) : resolved_modules[i].module_name = name

\* resolve_module: a cached name returns its record; a new name is appended
\* to resolved_modules and registered in the graph.  file_exists is the
\* file system's answer at the time of the call.
resolve_module ==
    \E name \in ModuleNames, exists \in BOOLEAN :
        /\ resolver_alive
        /\ UNCHANGED modOthers
        /\ IF IsResolved(name)
           THEN /\ UNCHANGED <<resolved_modules, graph_modules>>
                /\ mod_last' = [op |-> "resolve_module", a |-> name, b |-> "",
                                ret |-> TRUE, code |-> 0]
           ELSE /\ resolved_modules' = Append(resolved_modules,
                        [module_name |-> name, exists |-> exists])
                /\ graph_modules' = add_module_to_graph(graph_modules, name)
                /\ mod_last' = [op |-> "resolve_module", a |-> name, b |-> "",
                                ret |-> TRUE, code |-> 0]
        /\ UNCHANGED <<dependencies, resolver_alive>>

\* add_module_to_graph hands realloc the pointer in the slot it has just
\* added to graph->dependencies, which nothing has initialized: where that
\* slot does not happen to hold NULL the allocator aborts the process.
resolve_module_abort ==
    \E name \in ModuleNames :
        /\ resolver_alive
        /\ ~IsResolved(name)
        /\ resolver_alive' = FALSE
        /\ mod_last' = [op |-> "resolve_module", a |-> name, b |-> "",
                        ret |-> FALSE, code |-> 0]
        /\ UNCHANGED <<resolved_modules, graph_modules, dependencies>>
        /\ UNCHANGED modOthers

add_dependency ==
    \E dependent \in ModuleNames, dependency \in ModuleNames :
        /\ resolver_alive
        /\ UNCHANGED modOthers
        /\ LET r == add_dependency_result(graph_modules, dependencies,
                                          dependent, dependency)
           IN  /\ dependencies' = r.deps
               /\ mod_last' = [op |-> "add_dependency", a |-> dependent,
                               b |-> dependency, ret |-> r.ret, code |-> r.code]
        /\ UNCHANGED <<resolved_modules, graph_modules, resolver_alive>>

NextModules == resolve_module \/ resolve_module_abort \/ add_dependency


(***************************************************************************)
(*                 CHARACTERS (shared by the two lexers)                    *)
(***************************************************************************)
\* what peek returns at the end of the buffer ('\0'); never a source character
NUL == "NUL"

Digits == {"0", "1", "2", "3", "4", "5", "6", "7", "8", "9"}

Letters ==
    {"a", "b", "c", "d", "e", "f", "g", "h", "i", "j", "k", "l", "m", "n",
     "o", "p", "q", "r", "s", "t", "u", "v", "w", "x", "y", "z",
     "A", "B", "C", "D", "E", "F", "G", "H", "I", "J", "K", "L", "M", "N",
     "O", "P", "Q", "R", "S", "T", "U", "V", "W", "X", "Y", "Z"}

isalpha(c) == c \in Letters
isdigit(c) == c \in Digits
isalnum(c) == isalpha(c) \/ isdigit(c)

\* the characters of s joined into one string (strndup of a slice)
RECURSIVE Concat(_)
Concat(s) == IF s = <<>> THEN "" ELSE s[1] \o Concat(Tail(s))

\* the slice source[from .. to-1] of a buffer indexed from 0
Slice(src, from, to) ==
    IF to > Len(src) THEN SubSeq(src, from + 1, Len(src))
    ELSE SubSeq(src, from + 1, to)

(***************************************************************************)
(*              LEXER A (src/compiler/lexer.c, next_token)                  *)
(***************************************************************************)
\* create_lexer
LexerAInit == [current |-> 0, start |-> 0, line |-> 1, column |-> 1]

is_at_end(src, lx) == lx.current >= Len(src)

peek(src, lx) == IF is_at_end(src, lx) THEN NUL ELSE src[lx.current + 1]

peek_next(src, lx) ==
    IF lx.current + 1 >= Len(src) THEN NUL ELSE src[lx.current + 2]

\* advance of lexer.c: one character on, the line counted at a line feed
lexer_advance(src, lx) ==
    LET c == src[lx.current + 1]
    IN  [lx EXCEPT !.current = @ + 1,
                   !.line = IF c = "\n" THEN @ + 1 ELSE @,
                   !.column = IF c = "\n" THEN 1 ELSE @ + 1]

\* match of lexer.c: consumes the expected character when it is next
lexer_match(src, lx, expected) ==
    IF is_at_end(src, lx) THEN [lx |-> lx, ok |-> FALSE]
    ELSE IF src[lx.current + 1] # expected THEN [lx |-> lx, ok |-> FALSE]
    ELSE [lx |-> lexer_advance(src, lx), ok |-> TRUE]

make_token(src, lx, type) ==
    LET length == lx.current - lx.start
    IN  [type |-> type,
         lexeme |-> Concat(Slice(src, lx.start, lx.current)),
         length |-> length,
         line |-> lx.line,
         column |-> lx.column - length]

\* strlen of the two messages next_token produces
strlen(message) ==
    IF message = "Unterminated string literal" THEN 27 ELSE 20

make_error_token(lx, message) ==
    [type |-> "TOKEN_ERROR", lexeme |-> message, length |-> strlen(message),
     line |-> lx.line, column |-> lx.column]

RECURSIVE skip_comment(_, _)
skip_comment(src, lx) ==
    IF peek(src, lx) # "\n" /\ ~is_at_end(src, lx)
    THEN skip_comment(src, lexer_advance(src, lx))
    ELSE lx

RECURSIVE skip_whitespace_and_comments(_, _)
skip_whitespace_and_comments(src, lx) ==
    LET c == peek(src, lx)
    IN  IF c \in {" ", "\r", "\t", "\n"}
        THEN skip_whitespace_and_comments(src, lexer_advance(src, lx))
        ELSE IF c = "/" /\ peek_next(src, lx) = "/"
        THEN skip_whitespace_and_comments(src, skip_comment(src, lx))
        ELSE lx

is_identifier_start(c) == isalpha(c) \/ c = "_"
is_identifier_char(c) == isalnum(c) \/ c = "_"

\* the CHECK_KEYWORD table of identifier_or_keyword
KeywordA(text) ==
    CASE text = "function" -> "TOKEN_FUNCTION"
      [] text = "let" -> "TOKEN_LET"
      [] text = "if" -> "TOKEN_IF"
      [] text = "else" -> "TOKEN_ELSE"
      [] text = "match" -> "TOKEN_MATCH"
      [] text = "effect" -> "TOKEN_EFFECT"
      [] text = "api" -> "TOKEN_API"
      [] text = "module" -> "TOKEN_MODULE"
      [] text = "type" -> "TOKEN_TYPE"
      [] text = "uses" -> "TOKEN_USES"
      [] text = "fn" -> "TOKEN_FN"
      [] text = "true" -> "TOKEN_TRUE"
      [] text = "false" -> "TOKEN_FALSE"
      [] text = "some" -> "TOKEN_SOME"
      [] text = "none" -> "TOKEN_NONE"
      [] text = "ok" -> "TOKEN_OK"
      [] text = "err" -> "TOKEN_ERR"
      [] OTHER -> "TOKEN_IDENTIFIER"

RECURSIVE scan_identifier(_, _)
scan_identifier(src, lx) ==
    IF is_identifier_char(peek(src, lx))
    THEN scan_identifier(src, lexer_advance(src, lx))
    ELSE lx

identifier_or_keyword(src, lx) ==
    LET e == scan_identifier(src, lx)
    IN  [lx |-> e,
         tok |-> make_token(src, e,
                     KeywordA(Concat(Slice(src, e.start, e.current))))]

RECURSIVE scan_digits(_, _)
scan_digits(src, lx) ==
    IF isdigit(peek(src, lx))
    THEN scan_digits(src, lexer_advance(src, lx))
    ELSE lx

\* a number scan that hands back its token with the digit unread
number_rewind(src, lx) ==
    [lx |-> [lx EXCEPT !.current = lx.start],
     tok |-> make_token(src, lx, "TOKEN_INT_LITERAL")]

number(src, lx) ==
    LET e == scan_digits(src, lx)
    IN  [lx |-> e, tok |-> make_token(src, e, "TOKEN_INT_LITERAL")]

\* string of lexer.c, entered with the opening quote consumed: an error
\* token at a line feed (left unconsumed) or at the end of the buffer
RECURSIVE string(_, _)
string(src, lx) ==
    IF peek(src, lx) # "\"" /\ ~is_at_end(src, lx)
    THEN IF peek(src, lx) = "\n"
         THEN [lx |-> lx,
               tok |-> make_error_token(lx, "Unterminated string literal")]
         ELSE string(src, lexer_advance(src, lx))
    ELSE IF is_at_end(src, lx)
    THEN [lx |-> lx,
          tok |-> make_error_token(lx, "Unterminated string literal")]
    ELSE LET e == lexer_advance(src, lx)
         IN  [lx |-> e, tok |-> make_token(src, e, "TOKEN_STRING_LITERAL")]

\* the first switch of next_token: every character listed there returns at
\* once ("" for a character that is not listed)
SingleCharTokenA(c) ==
    CASE c = "(" -> "TOKEN_LPAREN"
      [] c = ")" -> "TOKEN_RPAREN"
      [] c = "{" -> "TOKEN_LBRACE"
      [] c = "}" -> "TOKEN_RBRACE"
      [] c = "[" -> "TOKEN_LBRACKET"
      [] c = "]" -> "TOKEN_RBRACKET"
      [] c = "," -> "TOKEN_COMMA"
      [] c = ":" -> "TOKEN_COLON"
      [] c = ";" -> "TOKEN_SEMICOLON"
      [] c = "." -> "TOKEN_DOT"
      [] c = "|" -> "TOKEN_PIPE"
      [] c = "+" -> "TOKEN_PLUS"
      [] c = "-" -> "TOKEN_MINUS"
      [] c = "*" -> "TOKEN_STAR"
      [] c = "/" -> "TOKEN_SLASH"
      [] c = "%" -> "TOKEN_MOD"
      [] c = "=" -> "TOKEN_EQUALS_SIGN"
      [] c = "<" -> "TOKEN_LESS"
      [] c = ">" -> "TOKEN_GREATER"
      [] c = "!" -> "TOKEN_NOT"
      [] c = "&" -> "TOKEN_AND"
      [] c = "o" -> "TOKEN_OR"
      [] OTHER -> ""

\* the two-character tests of next_token, which follow the switch
TwoCharTokenA(src, lx, c) ==
    LET second == IF c \in {"=", "!", "<", ">"} THEN "=" ELSE ">"
        type == CASE c = "=" -> "TOKEN_DOUBLE_EQUALS"
                  [] c = "!" -> "TOKEN_NOT_EQUALS"
                  [] c = "<" -> "TOKEN_LESS_EQUALS"
                  [] c = ">" -> "TOKEN_GREATER_EQUALS"
                  [] c = "-" -> "TOKEN_ARROW"
                  [] c = "|" -> "TOKEN_PIPE_RIGHT"
                  [] OTHER -> ""
        m == lexer_match(src, lx, second)
    IN  IF type # "" /\ m.ok
        THEN [lx |-> m.lx, tok |-> make_token(src, m.lx, type), ok |-> TRUE]
        ELSE [lx |-> lx, tok |-> make_token(src, lx, ""), ok |-> FALSE]

\* next_token: the lexer after the call and the token returned
next_token_result(src, lx0) ==
    LET sk == skip_whitespace_and_comments(src, lx0)
        lx == [sk EXCEPT !.start = sk.current]
    IN  IF is_at_end(src, lx)
        THEN [lx |-> lx, tok |-> make_token(src, lx, "TOKEN_EOF")]
        ELSE LET c == src[lx.current + 1]
                 a == lexer_advance(src, lx)
                 two == TwoCharTokenA(src, a, c)
             IN  IF c = "\"" THEN string(src, a)
                 ELSE IF SingleCharTokenA(c) # ""
                 THEN [lx |-> a, tok |-> make_token(src, a, SingleCharTokenA(c))]
                 ELSE IF two.ok THEN [lx |-> two.lx, tok |-> two.tok]
                 ELSE IF isdigit(c) THEN number(src, a)
                 ELSE IF is_identifier_start(c) THEN identifier_or_keyword(src, a)
                 ELSE [lx |-> a,
                       tok |-> make_error_token(a, "Unexpected character")]


(***************************************************************************)
(*             LEXER B (lexer_next_token, linked into mkc)                  *)
(***************************************************************************)
\* lexer_create
LexerBInit == [position |-> 0, line |-> 1, column |-> 1]

\* strndup(source + start, length): stops at the terminating NUL; a length
\* below zero is a size_t that wrapped round and copies up to the NUL
strndup(src, start, length) ==
    IF length < 0 THEN Concat(Slice(src, start, Len(src)))
    ELSE Concat(Slice(src, start, start + length))

RECURSIVE skip_comment_b(_, _)
skip_comment_b(src, lx) ==
    IF lx.position < Len(src) /\ src[lx.position + 1] # "\n"
    THEN skip_comment_b(src, [lx EXCEPT !.position = @ + 1])
    ELSE lx

\* the whitespace and comment loop at the head of lexer_next_token
RECURSIVE skip_whitespace_b(_, _)
skip_whitespace_b(src, lx) ==
    IF lx.position >= Len(src) THEN lx
    ELSE LET c == src[lx.position + 1]
         IN  IF c \in {" ", "\t", "\r"}
             THEN skip_whitespace_b(src, [lx EXCEPT !.position = @ + 1,
                                                   !.column = @ + 1])
             ELSE IF c = "\n"
             THEN skip_whitespace_b(src, [lx EXCEPT !.position = @ + 1,
                                                   !.line = @ + 1,
                                                   !.column = 1])
             ELSE IF c = "/" /\ lx.position + 1 < Len(src)
                             /\ src[lx.position + 2] = "/"
             THEN skip_whitespace_b(src, skip_comment_b(src, lx))
             ELSE lx

KeywordB(text) ==
    CASE text = "fn" -> "TOK_FN"
      [] text = "let" -> "TOK_LET"
      [] text = "if" -> "TOK_IF"
      [] text = "else" -> "TOK_ELSE"
      [] text = "match" -> "TOK_MATCH"
      [] text = "type" -> "TOK_TYPE"
      [] text = "effect" -> "TOK_EFFECT"
      [] text = "import" -> "TOK_IMPORT"
      [] text = "api" -> "TOK_API"
      [] text = "get" -> "TOK_GET"
      [] text = "true" -> "TOK_BOOL_LITERAL"
      [] text = "false" -> "TOK_BOOL_LITERAL"
      [] text = "unit" -> "TOK_UNIT_LITERAL"
      [] OTHER -> "TOK_IDENTIFIER"

RECURSIVE scan_identifier_b(_, _)
scan_identifier_b(src, lx) ==
    IF lx.position < Len(src)
       /\ (isalnum(src[lx.position + 1]) \/ src[lx.position + 1] = "_")
    THEN scan_identifier_b(src, [lx EXCEPT !.position = @ + 1,
                                          !.column = @ + 1])
    ELSE lx

RECURSIVE scan_digits_b(_, _)
scan_digits_b(src, lx) ==
    IF lx.position < Len(src) /\ isdigit(src[lx.position + 1])
    THEN scan_digits_b(src, [lx EXCEPT !.position = @ + 1, !.column = @ + 1])
    ELSE lx

\* the body loop of a string literal: runs to the closing quote or to the
\* end of the buffer; a backslash skips the character after it unread
RECURSIVE scan_string_b(_, _)
scan_string_b(src, lx) ==
    IF lx.position < Len(src) /\ src[lx.position + 1] # "\""
    THEN LET skip == IF src[lx.position + 1] = "\\" THEN 2 ELSE 1
         IN  scan_string_b(src, [lx EXCEPT !.position = @ + skip,
                                           !.column = @ + skip])
    ELSE lx

SymbolTokenB(c) ==
    CASE c = "(" -> "TOK_LPAREN"
      [] c = ")" -> "TOK_RPAREN"
      [] c = "{" -> "TOK_LBRACE"
      [] c = "}" -> "TOK_RBRACE"
      [] c = "[" -> "TOK_LBRACKET"
      [] c = "]" -> "TOK_RBRACKET"
      [] c = "," -> "TOK_COMMA"
      [] c = ":" -> "TOK_COLON"
      [] c = ";" -> "TOK_SEMICOLON"
      [] c = "." -> "TOK_DOT"
      [] c = "|" -> "TOK_PIPE"
      [] c = "=" -> "TOK_EQUALS"
      [] c = "+" -> "TOK_PLUS"
      [] c = "-" -> "TOK_MINUS"
      [] c = "*" -> "TOK_STAR"
      [] c = "/" -> "TOK_SLASH"
      [] c = "%" -> "TOK_PERCENT"
      [] c = "!" -> "TOK_EXCLAMATION"
      [] c = "?" -> "TOK_QUESTION"
      [] c = "&" -> "TOK_AMPERSAND"
      [] c = "_" -> "TOK_UNDERSCORE"
      [] OTHER -> "TOK_INVALID"

\* lexer_next_token: the lexer after the call and the token returned
lexer_next_token_result(src, lx0) ==
    LET lx == skip_whitespace_b(src, lx0)
        tokenAt(type, text) ==
            [type |-> type, text |-> text,
             line |-> lx.line, column |-> lx.column]
    IN  IF lx.position >= Len(src)
        THEN [lx |-> lx, tok |-> tokenAt("TOK_EOF", "")]
        ELSE
        LET c == src[lx.position + 1]
            one == [lx EXCEPT !.position = @ + 1, !.column = @ + 1]
        IN  IF isalpha(c) \/ c = "_"
            THEN LET e == scan_identifier_b(src, lx)
                     text == strndup(src, lx.position, e.position - lx.position)
                 IN  [lx |-> e, tok |-> tokenAt(KeywordB(text), text)]
            ELSE IF c = "\""
            THEN LET b == scan_string_b(src, one)
                     e == IF b.position < Len(src)
                          THEN [b EXCEPT !.position = @ + 1, !.column = @ + 1]
                          ELSE b
                     length == e.position - one.position - 1
                 IN  [lx |-> e,
                      tok |-> tokenAt("TOK_STRING_LITERAL",
                                      strndup(src, one.position, length))]
            ELSE IF isdigit(c)
            THEN LET e == scan_digits_b(src, lx)
                 IN  [lx |-> e,
                      tok |-> tokenAt("TOK_INT_LITERAL",
                                  strndup(src, lx.position,
                                          e.position - lx.position))]
            ELSE IF c = "-" /\ one.position < Len(src)
                            /\ src[one.position + 1] = ">"
            THEN [lx |-> [one EXCEPT !.position = @ + 1, !.column = @ + 1],
                  tok |-> tokenAt("TOK_ARROW", "->")]
            ELSE [lx |-> one, tok |-> tokenAt(SymbolTokenB(c), c)]


(***************************************************************************)
(*                 THE LEXERS AS A STATE MACHINE                            *)
(***************************************************************************)
\* the characters source buffers are drawn from: the operator characters,
\* a quote, a backslash, white space, a letter, the letter o, a digit and a
\* character neither lexer knows
Alphabet ==
    {"=", "!", "<", ">", "-", "|", "\"", "\\", "\n", " ", "/", "a", "o",
     "1", "#"}

RECURSIVE SeqsUpTo(_, _)
SeqsUpTo(S, n) ==
    IF n = 0 THEN {<<>>}
    ELSE LET shorter == SeqsUpTo(S, n - 1)
         IN  shorter \cup {Append(s, c) : s \in shorter, c \in S}

Sources == SeqsUpTo(Alphabet, MaxSrcLen)

\* no diagnostic recorded yet (error_reporter_create)
NoDiagnostics == diagnostics = <<>>

\* create_lexer / lexer_create on some source buffer
LexInit ==
    /\ lex_impl \in {"A", "B"}
    /\ lex_source \in Sources
    /\ lexer = IF lex_impl = "A" THEN LexerAInit ELSE LexerBInit
    /\ lex_tokens = <<>>

LexIdle ==
    /\ lex_impl = "A"
    /\ lex_source = <<>>
    /\ lexer = LexerAInit
    /\ lex_tokens = <<>>

EofTypes == {"TOKEN_EOF", "TOK_EOF"}

\* the caller stops asking once end-of-input has been returned
LexDone ==
    lex_tokens # <<>> /\ lex_tokens[Len(lex_tokens)].tok.type \in EofTypes

\* one call of next_token (lexer A); the lexer records no diagnostic
next_token ==
    /\ lex_impl = "A"
    /\ ~LexDone
    /\ LET r == next_token_result(lex_source, lexer)
       IN  /\ lexer' = r.lx
           /\ lex_tokens' = Append(lex_tokens,
                  [tok |-> r.tok, before |-> lexer.current,
                   start |-> r.lx.start, after |-> r.lx.current])
    /\ UNCHANGED <<lex_impl, lex_source, diagnostics>>
    /\ UNCHANGED lexOthers

\* one call of lexer_next_token (lexer B); the lexer records no diagnostic
lexer_next_token ==
    /\ lex_impl = "B"
    /\ ~LexDone
    /\ LET r == lexer_next_token_result(lex_source, lexer)
       IN  /\ lexer' = r.lx
           /\ lex_tokens' = Append(lex_tokens,
                  [tok |-> r.tok, before |-> lexer.position,
                   start |-> skip_whitespace_b(lex_source, lexer).position,
                   after |-> r.lx.position])
    /\ UNCHANGED <<lex_impl, lex_source, diagnostics>>
    /\ UNCHANGED lexOthers

NextLexer == next_token \/ lexer_next_token


(***************************************************************************)
(*              PARSER A (src/compiler/parser.c, parse_program)             *)
(*                                                                          *)
(* A production takes the token stream and the parser state P and returns   *)
(* the state after it: pos is the index of current_token, diags the codes   *)
(* reported so far, ok whether the production returned a node, iters the    *)
(* iterations the parsing loops have made (where the current token was      *)
(* before and after), hung whether a loop has made an iteration that        *)
(* changed nothing it tests and so repeats it for ever.                     *)
(***************************************************************************)
Tok(type, lexeme) == [type |-> type, lexeme |-> lexeme]

NullNode == [kind |-> "NULL"]

\* create_parser: current_token is the first token of the stream; node is
\* what the production that ran last returned
ParserAInit == [pos |-> 1, diags |-> <<>>, ok |-> TRUE, iters |-> <<>>,
                hung |-> FALSE, spin |-> <<>>, node |-> NullNode]

\* advance: the lexer keeps returning end-of-input once it is reached
advance(toks, P) ==
    [P EXCEPT !.pos = IF @ < Len(toks) THEN @ + 1 ELSE @]

check(toks, P, type) == toks[P.pos].type = type

\* match: ok tells whether the token was there and has been consumed
match(toks, P, type) ==
    [(IF check(toks, P, type) THEN advance(toks, P) ELSE P)
        EXCEPT !.ok = check(toks, P, type)]

\* report_syntax_error: one more diagnostic, the production fails
report_syntax_error(P, code) ==
    [P EXCEPT !.diags = Append(@, code), !.ok = FALSE, !.node = NullNode]

\* consume: reports E1001 and leaves the current token where it is
consume(toks, P, type) ==
    IF check(toks, P, type) THEN [advance(toks, P) EXCEPT !.ok = TRUE]
    ELSE report_syntax_error(P, 1001)

\* one iteration of a loop that began at state P and ended at state Q; an
\* iteration that leaves the current token in place is repeated without end
LoopIteration(loop, P, Q) ==
    [Q EXCEPT !.iters = Append(@, [loop |-> loop, before |-> P.pos,
                                   after |-> Q.pos]),
              !.hung = Q.pos = P.pos,
              !.spin = SubSeq(Q.diags, Len(P.diags) + 1, Len(Q.diags))]

\* "if (!x) return NULL": the production stops where the call that failed
\* left the parser; otherwise it goes on with the rest
OrReturn(p, rest(_)) == IF ~p.ok \/ p.hung THEN p ELSE rest(p)

\* the statements after a call; a call that never returns has none
Then(p, rest(_)) == IF p.hung THEN p ELSE rest(p)

\* the production returns a node
Node(p) == [p EXCEPT !.ok = TRUE]

Returns(p, node) == [p EXCEPT !.ok = TRUE, !.node = node]

\* a list the parser collects with realloc: parameters, effects, cases,
\* declarations
ListNode(items) == [kind |-> "list", items |-> items]

ItemsOf(node) == IF node.kind = "list" THEN node.items ELSE <<>>

\* the constructors of the syntax tree (ast.c)
create_literal_expr(lit_kind, value) ==
    [kind |-> "NODE_LITERAL", lit_kind |-> lit_kind, value |-> value]

create_identifier_expr(name) ==
    [kind |-> "NODE_IDENTIFIER_EXPR", name |-> name]

create_primitive_type(primitive_kind) ==
    [kind |-> "NODE_PRIMITIVE_TYPE", primitive_kind |-> primitive_kind]

create_named_type(name) == [kind |-> "NODE_NAMED_TYPE", name |-> name]

create_constructor_pattern(constructor) ==
    [kind |-> "NODE_CONSTRUCTOR_PATTERN", constructor |-> constructor,
     fields |-> <<>>]

create_let_stmt(name, expr) ==
    [kind |-> "NODE_LET_STMT", name |-> name, expr |-> expr]

create_expr_stmt(expr) == [kind |-> "NODE_EXPR_STMT", expr |-> expr]

create_if_stmt(condition, then_branch, else_branch) ==
    [kind |-> "NODE_IF_STMT", condition |-> condition,
     then_branch |-> then_branch, else_branch |-> else_branch]

create_match_stmt(scrutinee, cases) ==
    [kind |-> "NODE_MATCH_STMT", scrutinee |-> scrutinee, cases |-> cases]

create_function_decl(name, params, return_type, effects, body) ==
    [kind |-> "NODE_FUNCTION_DECL", name |-> name, params |-> params,
     return_type |-> return_type, effects |-> effects, body |-> body]

create_type_decl(name) ==
    [kind |-> "NODE_TYPE_DECL", name |-> name, is_union |-> FALSE]

create_effect_decl(name) == [kind |-> "NODE_EFFECT_DECL", name |-> name]

create_import_decl(module_path, alias) ==
    [kind |-> "NODE_IMPORT_DECL", module_path |-> module_path,
     alias |-> alias]

create_module(name, decls) ==
    [kind |-> "NODE_MODULE", name |-> name, decls |-> decls]

create_api_route(method, path, body) ==
    [kind |-> "NODE_API_ROUTE", method |-> method, path |-> path,
     body |-> body]

create_program(modules, apis) ==
    [kind |-> "NODE_PROGRAM", modules |-> modules, apis |-> apis]

\* a char* a production returns
StringNode(text) == [kind |-> "string", text |-> text]

DigitChars == <<"0", "1", "2", "3", "4", "5", "6", "7", "8", "9">>

DigitValue(c) == (CHOOSE d \in 1..10 : DigitChars[d] = c) - 1

\* strtoll(lexeme, &end, 10) on the digits of an integer literal
RECURSIVE strtoll_from(_, _)
strtoll_from(text, value) ==
    IF text = "" THEN value
    ELSE strtoll_from(Tail(text), 10 * value + DigitValue(Head(text)))

strtoll(lexeme) == strtoll_from(lexeme, 0)

\* make_literal_token: strndup(lexeme + 1, length - 2), the string literal
\* without its quotes
literal_string_val(lexeme) == SubSeq(lexeme, 2, Len(lexeme) - 1)

parse_primary(toks, P) ==
    IF check(toks, P, "TOKEN_INT_LITERAL")
    THEN Returns(advance(toks, P),
                 create_literal_expr("LIT_INT", strtoll(toks[P.pos].lexeme)))
    ELSE IF check(toks, P, "TOKEN_STRING_LITERAL")
    THEN Returns(advance(toks, P),
                 create_literal_expr("LIT_STRING",
                     literal_string_val(toks[P.pos].lexeme)))
    ELSE IF check(toks, P, "TOKEN_IDENTIFIER")
    THEN Returns(advance(toks, P),
                 create_identifier_expr(toks[P.pos].lexeme))
    ELSE IF check(toks, P, "TOKEN_TRUE")
    THEN Returns(advance(toks, P), create_literal_expr("LIT_BOOL", TRUE))
    ELSE IF check(toks, P, "TOKEN_FALSE")
    THEN Returns(advance(toks, P), create_literal_expr("LIT_BOOL", FALSE))
    ELSE report_syntax_error(P, 1001)

parse_expression(toks, P) == parse_primary(toks, P)

parse_type(toks, P) ==
    IF check(toks, P, "TOKEN_IDENTIFIER")
    THEN Returns(advance(toks, P), create_named_type(toks[P.pos].lexeme))
    ELSE report_syntax_error(P, 1001)

parse_pattern(toks, P) ==
    IF check(toks, P, "TOKEN_IDENTIFIER")
    THEN Returns(advance(toks, P),
                 create_constructor_pattern(toks[P.pos].lexeme))
    ELSE report_syntax_error(P, 1001)

\* one case: the pattern pp has been parsed; '->', then the body
match_case_body(toks, pp) ==
    parse_expression(toks, consume(toks, pp, "TOKEN_ARROW"))

\* the case loop of parse_match_statement: pattern, '->', expression; a
\* case is added whatever its parts are
RECURSIVE match_cases(_, _, _)
match_case(toks, P, cases, pp, pb) ==
    Then(LoopIteration("match cases", P, pb),
         LAMBDA Q : match_cases(toks, Q,
                        Append(cases, [pattern |-> pp.node,
                                       body |-> pb.node])))

match_cases(toks, P, cases) ==
    IF ~check(toks, P, "TOKEN_RBRACE") /\ ~check(toks, P, "TOKEN_EOF")
    THEN match_case(toks, P, cases, parse_pattern(toks, P),
                    match_case_body(toks, parse_pattern(toks, P)))
    ELSE [P EXCEPT !.node = ListNode(cases)]

parse_match_statement(toks, P) ==
    OrReturn(parse_expression(toks, P),
        LAMBDA p1 :
            Then(match_cases(toks, consume(toks, p1, "TOKEN_LBRACE"), <<>>),
                 LAMBDA p3 :
                     Returns(consume(toks, p3, "TOKEN_RBRACE"),
                             create_match_stmt(p1.node, ItemsOf(p3.node)))))

parse_let_statement(toks, P) ==
    OrReturn(consume(toks, P, "TOKEN_IDENTIFIER"),
        LAMBDA p1 :
            OrReturn(parse_expression(toks,
                         consume(toks, p1, "TOKEN_EQUALS_SIGN")),
                LAMBDA p2 :
                    Returns(p2, create_let_stmt(toks[P.pos].lexeme,
                                                p2.node))))

RECURSIVE parse_statement(_, _)

\* the else branch, when there is one, may be NULL
if_statement_else(toks, p1, p2) ==
    IF check(toks, p2, "TOKEN_ELSE")
    THEN Returns(parse_statement(toks, advance(toks, p2)),
                 create_if_stmt(p1.node, p2.node,
                     parse_statement(toks, advance(toks, p2)).node))
    ELSE Returns(p2, create_if_stmt(p1.node, p2.node, NullNode))

parse_if_statement(toks, P) ==
    OrReturn(parse_expression(toks, P),
        LAMBDA p1 :
            OrReturn(parse_statement(toks, p1),
                LAMBDA p2 : if_statement_else(toks, p1, p2)))

\* create_expr_stmt is given the expression even when it is NULL
expression_statement(p) == Returns(p, create_expr_stmt(p.node))

parse_statement(toks, P) ==
    IF check(toks, P, "TOKEN_LET")
    THEN parse_let_statement(toks, advance(toks, P))
    ELSE IF check(toks, P, "TOKEN_IF")
    THEN parse_if_statement(toks, advance(toks, P))
    ELSE IF check(toks, P, "TOKEN_MATCH")
    THEN parse_match_statement(toks, advance(toks, P))
    ELSE IF check(toks, P, "TOKEN_LBRACE")
    THEN Then(parse_statement(toks, advance(toks, P)),
              LAMBDA p1 : [consume(toks, p1, "TOKEN_RBRACE")
                             EXCEPT !.ok = p1.ok, !.node = p1.node])
    ELSE expression_statement(parse_expression(toks, P))

Param(name, type) == [name |-> name, type |-> type]

\* the do-while loop of parse_parameters, entered when a parameter follows
RECURSIVE parameter_list(_, _, _)
parameter_list(toks, P, params) ==
    OrReturn(consume(toks, P, "TOKEN_IDENTIFIER"),
        LAMBDA p1 :
            OrReturn(parse_type(toks, consume(toks, p1, "TOKEN_COLON")),
                LAMBDA p3 :
                    IF check(toks, p3, "TOKEN_COMMA")
                    THEN parameter_list(toks, advance(toks, p3),
                             Append(params,
                                    Param(toks[P.pos].lexeme, p3.node)))
                    ELSE Returns(p3,
                             ListNode(Append(params,
                                 Param(toks[P.pos].lexeme, p3.node))))))

parse_parameters(toks, P) ==
    IF check(toks, P, "TOKEN_RPAREN")
    THEN [P EXCEPT !.ok = FALSE, !.node = NullNode]
    ELSE parameter_list(toks, P, <<>>)

RECURSIVE parse_effect_list(_, _, _)
parse_effect_list(toks, P, effects) ==
    OrReturn(consume(toks, P, "TOKEN_IDENTIFIER"),
        LAMBDA p1 :
            IF check(toks, p1, "TOKEN_COMMA")
            THEN parse_effect_list(toks, advance(toks, p1),
                                   Append(effects, toks[P.pos].lexeme))
            ELSE Returns(p1,
                         ListNode(Append(effects, toks[P.pos].lexeme))))

\* the optional return type of a function, Int when there is none
parse_return_type(toks, P) ==
    IF check(toks, P, "TOKEN_COLON") THEN parse_type(toks, advance(toks, P))
    ELSE [P EXCEPT !.node = create_primitive_type("PRIM_INT")]

\* the optional uses clause of a function
parse_uses_clause(toks, P) ==
    IF check(toks, P, "TOKEN_USES")
    THEN Then(parse_effect_list(toks,
                  consume(toks, advance(toks, P), "TOKEN_LBRACE"), <<>>),
              LAMBDA pe : [consume(toks, pe, "TOKEN_RBRACE")
                             EXCEPT !.node = pe.node])
    ELSE [P EXCEPT !.node = NullNode]

\* '{', one statement, '}', and the declaration is created
function_body(toks, P, pp, pr, pu) ==
    Then(parse_statement(toks, consume(toks, pu, "TOKEN_LBRACE")),
         LAMBDA pb :
             Returns(consume(toks, pb, "TOKEN_RBRACE"),
                     create_function_decl(toks[P.pos].lexeme,
                         ItemsOf(pp.node), pr.node, ItemsOf(pu.node),
                         pb.node)))

function_uses(toks, P, pp, pr) ==
    function_body(toks, P, pp, pr, parse_uses_clause(toks, pr))

function_return_type(toks, P, pp) ==
    function_uses(toks, P, pp,
        parse_return_type(toks, consume(toks, pp, "TOKEN_RPAREN")))

\* name, '(', parameters, ')', return type, uses clause, '{', one
\* statement, '}'; only a missing name makes the production return NULL
parse_function_declaration(toks, P) ==
    OrReturn(consume(toks, P, "TOKEN_IDENTIFIER"),
        LAMBDA p1 :
            function_return_type(toks, P,
                parse_parameters(toks, consume(toks, p1, "TOKEN_LPAREN"))))

parse_type_declaration(toks, P) ==
    OrReturn(consume(toks, P, "TOKEN_IDENTIFIER"),
        LAMBDA p1 : Returns(p1, create_type_decl(toks[P.pos].lexeme)))

parse_effect_declaration(toks, P) ==
    OrReturn(consume(toks, P, "TOKEN_IDENTIFIER"),
        LAMBDA p1 : Returns(p1, create_effect_decl(toks[P.pos].lexeme)))

\* entered with the module name consumed; an alias may follow
parse_import_declaration(toks, P) ==
    IF check(toks, P, "TOKEN_IDENTIFIER")
    THEN Returns(advance(toks, P),
                 create_import_decl(toks[P.pos - 1].lexeme,
                                    StringNode(toks[P.pos].lexeme)))
    ELSE Returns(P, create_import_decl(toks[P.pos - 1].lexeme, NullNode))

\* an identifier that no identifier or string follows has been consumed
\* when the production reports its error; any other token has not
parse_declaration(toks, P) ==
    IF check(toks, P, "TOKEN_FUNCTION")
    THEN parse_function_declaration(toks, advance(toks, P))
    ELSE IF check(toks, P, "TOKEN_TYPE")
    THEN parse_type_declaration(toks, advance(toks, P))
    ELSE IF check(toks, P, "TOKEN_EFFECT")
    THEN parse_effect_declaration(toks, advance(toks, P))
    ELSE IF check(toks, P, "TOKEN_IDENTIFIER")
    THEN IF toks[advance(toks, P).pos].type
                \in {"TOKEN_IDENTIFIER", "TOKEN_STRING_LITERAL"}
         THEN parse_import_declaration(toks, advance(toks, P))
         ELSE report_syntax_error(advance(toks, P), 1001)
    ELSE report_syntax_error(P, 1001)

\* "if (decl) { add it to decls }"
AddDecl(decls, Q) ==
    IF Q.node.kind = "NULL" THEN decls ELSE Append(decls, Q.node)

\* the declaration loop of parse_module
RECURSIVE module_declarations(_, _, _)
module_declarations(toks, P, decls) ==
    IF ~check(toks, P, "TOKEN_RBRACE") /\ ~check(toks, P, "TOKEN_EOF")
    THEN Then(Then(parse_declaration(toks, P),
                   LAMBDA p1 : LoopIteration("module body", P, p1)),
              LAMBDA Q : module_declarations(toks, Q, AddDecl(decls, Q)))
    ELSE [P EXCEPT !.node = ListNode(decls)]

parse_module(toks, P) ==
    OrReturn(consume(toks, P, "TOKEN_IDENTIFIER"),
        LAMBDA p1 :
            Then(module_declarations(toks, consume(toks, p1, "TOKEN_LBRACE"),
                                     <<>>),
                 LAMBDA p3 :
                     Returns(consume(toks, p3, "TOKEN_RBRACE"),
                             create_module(toks[P.pos].lexeme,
                                           ItemsOf(p3.node)))))

HttpMethods == {"GET", "POST", "PUT", "DELETE", "PATCH", "HEAD", "OPTIONS"}

parse_http_method(toks, P) ==
    IF ~check(toks, P, "TOKEN_IDENTIFIER") THEN report_syntax_error(P, 1001)
    ELSE IF toks[P.pos].lexeme \notin HttpMethods
    THEN report_syntax_error(P, 6001)
    ELSE Returns(advance(toks, P), StringNode(toks[P.pos].lexeme))

\* the path is the lexeme of the string literal, quotes included
parse_path(toks, P) ==
    IF ~check(toks, P, "TOKEN_STRING_LITERAL")
    THEN report_syntax_error(P, 1001)
    ELSE Returns(advance(toks, P), StringNode(toks[P.pos].lexeme))

parse_api(toks, P) ==
    OrReturn(parse_http_method(toks, P),
        LAMBDA p1 :
            OrReturn(parse_path(toks, p1),
                LAMBDA p2 :
                    Then(parse_statement(toks,
                             consume(toks, p2, "TOKEN_LBRACE")),
                         LAMBDA p4 :
                             Returns(consume(toks, p4, "TOKEN_RBRACE"),
                                     create_api_route(p1.node.text,
                                         p2.node.text, p4.node)))))

\* one iteration of the loop of parse_program
parse_program_iteration(toks, P) ==
    Then(IF check(toks, P, "TOKEN_MODULE")
         THEN parse_module(toks, advance(toks, P))
         ELSE IF check(toks, P, "TOKEN_API")
         THEN parse_api(toks, advance(toks, P))
         ELSE advance(toks, report_syntax_error(P, 1001)),
         LAMBDA Q : LoopIteration("top level", P, Q))

\* the loop of parse_program run to end-of-input, then create_program; a
\* module or a route that is NULL is not added
RECURSIVE program_declarations(_, _, _, _)
program_declaration(toks, P, Q, modules, apis) ==
    IF Q.hung THEN Q
    ELSE IF check(toks, P, "TOKEN_MODULE")
    THEN program_declarations(toks, Q, AddDecl(modules, Q), apis)
    ELSE IF check(toks, P, "TOKEN_API")
    THEN program_declarations(toks, Q, modules, AddDecl(apis, Q))
    ELSE program_declarations(toks, Q, modules, apis)

program_declarations(toks, P, modules, apis) ==
    IF check(toks, P, "TOKEN_EOF")
    THEN [P EXCEPT !.node = create_program(modules, apis)]
    ELSE program_declaration(toks, P, parse_program_iteration(toks, P),
                             modules, apis)

(***************************************************************************)
(*                    PARSER A AS A STATE MACHINE                           *)
(***************************************************************************)
\* the tokens that follow the opening of a stream; lexer A turns "->" into
\* TOKEN_MINUS TOKEN_GREATER and an unclosed string into TOKEN_ERROR
TokenAlphabet ==
    {Tok("TOKEN_MODULE", "module"), Tok("TOKEN_API", "api"),
     Tok("TOKEN_FUNCTION", "function"), Tok("TOKEN_MATCH", "match"),
     Tok("TOKEN_LET", "let"), Tok("TOKEN_IDENTIFIER", "m"),
     Tok("TOKEN_IDENTIFIER", "GET"), Tok("TOKEN_STRING_LITERAL", "\"/\""),
     Tok("TOKEN_INT_LITERAL", "1"), Tok("TOKEN_LBRACE", "{"),
     Tok("TOKEN_RBRACE", "}"), Tok("TOKEN_LPAREN", "("),
     Tok("TOKEN_MINUS", "-"), Tok("TOKEN_ERROR", "Unexpected character")}

\* openings that bring the parser to the top level, into a module body,
\* into a function body and into the cases of a match statement
StreamOpenings ==
    LET module == <<Tok("TOKEN_MODULE", "module"), Tok("TOKEN_IDENTIFIER", "m"),
                    Tok("TOKEN_LBRACE", "{")>>
        function == <<Tok("TOKEN_FUNCTION", "function"),
                      Tok("TOKEN_IDENTIFIER", "m"), Tok("TOKEN_LPAREN", "("),
                      Tok("TOKEN_RPAREN", ")"), Tok("TOKEN_LBRACE", "{")>>
        matching == <<Tok("TOKEN_MATCH", "match"), Tok("TOKEN_IDENTIFIER", "m"),
                      Tok("TOKEN_LBRACE", "{")>>
    IN  {<<>>, module, module \o function, module \o function \o matching}

TokenStreams ==
    {opening \o rest \o <<Tok("TOKEN_EOF", "")>> :
        opening \in StreamOpenings, rest \in SeqsUpTo(TokenAlphabet, MaxTokens)}

\* create_parser on some token stream
ParserInit ==
    /\ parser_tokens \in TokenStreams
    /\ parser_pos = 1
    /\ parser_iters = <<>>
    /\ parser_status = "parsing"
    /\ parser_spin = <<>>

ParserIdle ==
    /\ parser_tokens = <<Tok("TOKEN_EOF", "")>>
    /\ parser_pos = 1
    /\ parser_iters = <<>>
    /\ parser_status = "parsing"
    /\ parser_spin = <<>>

\* one iteration of the loop of parse_program, with all it calls
parse_program ==
    /\ parser_status = "parsing"
    /\ parser_tokens[parser_pos].type # "TOKEN_EOF"
    /\ LET r == parse_program_iteration(parser_tokens,
                    [ParserAInit EXCEPT !.pos = parser_pos,
                                        !.diags = diagnostics,
                                        !.iters = parser_iters])
       IN  /\ parser_pos' = r.pos
           /\ diagnostics' = r.diags
           /\ parser_iters' = r.iters
           /\ parser_status' = IF r.hung THEN "hung" ELSE "parsing"
           /\ parser_spin' = r.spin
    /\ UNCHANGED parser_tokens
    /\ UNCHANGED parOthers

\* the loop of parse_program ends at end-of-input: create_program
parse_program_return ==
    /\ parser_status = "parsing"
    /\ parser_tokens[parser_pos].type = "TOKEN_EOF"
    /\ parser_status' = "done"
    /\ UNCHANGED <<parser_tokens, parser_pos, parser_iters, parser_spin,
                   diagnostics>>
    /\ UNCHANGED parOthers

\* a loop whose iteration consumed nothing makes the same iteration again
repeat_iteration ==
    /\ parser_status = "hung"
    /\ Len(diagnostics) < MaxDiagnostics
    /\ diagnostics' = diagnostics \o parser_spin
    /\ parser_iters' = Append(parser_iters, parser_iters[Len(parser_iters)])
    /\ UNCHANGED <<parser_tokens, parser_pos, parser_status, parser_spin>>
    /\ UNCHANGED parOthers

NextParser == parse_program \/ parse_program_return \/ repeat_iteration


(***************************************************************************)
(*        PARSER B (parser_parse_program, linked into mkc)                  *)
(*                                                                          *)
(* The parser state S holds the lexer (lx), current_token (tok), the calls  *)
(* made to the lexer (trace), the functions and api routes added to the     *)
(* module, the result of the production that ran last (node) and how many   *)
(* productions have returned NULL (nulls).                                  *)
(***************************************************************************)
\* what one call of lexer_next_token adds to the record of calls
TraceEntryB(src, lx, r) ==
    [tok |-> r.tok, before |-> lx.position,
     start |-> skip_whitespace_b(src, lx).position, after |-> r.lx.position]

TakeToken(src, S, r) ==
    [S EXCEPT !.lx = r.lx, !.tok = r.tok,
              !.trace = Append(@, TraceEntryB(src, S.lx, r))]

\* parser->current_token = lexer_next_token(parser->lexer)
advance_token(src, S) == TakeToken(src, S, lexer_next_token_result(src, S.lx))

\* parser_create: the first token is read at once
ParserBInit(src) ==
    advance_token(src, [lx |-> LexerBInit, tok |-> [type |-> "", text |-> "",
                                                    line |-> 0, column |-> 0],
                        trace |-> <<>>, functions |-> <<>>,
                        api_routes |-> <<>>, node |-> NullNode, nulls |-> 0])

\* "if (current_token.type != T) return NULL", else the rest of the production
Expect(S, types, rest(_)) ==
    IF S.tok.type \in types THEN rest(S) ELSE [S EXCEPT !.node = NullNode]

WithNode(S, node) == [S EXCEPT !.node = node]

\* the closing brace of a block is consumed when it is there
block_end(src, S) ==
    IF S.tok.type = "TOK_RBRACE" THEN advance_token(src, S) ELSE S

\* parser_parse_block: '{', then a string literal and '}' or nothing at all
block_body(src, S) ==
    IF S.tok.type = "TOK_STRING_LITERAL"
    THEN block_end(src, WithNode(advance_token(src, S),
                            [kind |-> "block", result_expr |-> S.tok.text,
                             has_result |-> TRUE]))
    ELSE WithNode(S, [kind |-> "block", result_expr |-> "",
                      has_result |-> FALSE])

parser_parse_block(src, S) == block_body(src, advance_token(src, S))

\* "skip return type": on to the next '{' or to end-of-input
RECURSIVE skip_return_type(_, _)
skip_return_type(src, S) ==
    IF S.tok.type # "TOK_LBRACE" /\ S.tok.type # "TOK_EOF"
    THEN skip_return_type(src, advance_token(src, S))
    ELSE S

FunctionNode(name, S) ==
    [S EXCEPT !.node = [kind |-> "function", name |-> name, body |-> S.node]]

RouteNode(method, path, S) ==
    [S EXCEPT !.node = [kind |-> "api_route", method |-> method,
                        path |-> path, handler |-> S.node]]

\* '(' ')' '->' return type '{' block, shared by functions and routes
signature_and_block(src, S, node(_)) ==
    Expect(S, {"TOK_LPAREN"}, LAMBDA s2 :
    Expect(advance_token(src, s2), {"TOK_RPAREN"}, LAMBDA s3 :
    Expect(advance_token(src, s3), {"TOK_ARROW"}, LAMBDA s4 :
    Expect(skip_return_type(src, advance_token(src, s4)), {"TOK_LBRACE"},
           LAMBDA s5 : node(parser_parse_block(src, s5))))))

parser_parse_function(src, S) ==
    Expect(advance_token(src, S), {"TOK_IDENTIFIER"}, LAMBDA s1 :
        signature_and_block(src, advance_token(src, s1),
            LAMBDA b : FunctionNode(s1.tok.text, b)))

parser_parse_api_route(src, S) ==
    Expect(advance_token(src, S), {"TOK_IDENTIFIER", "TOK_GET"}, LAMBDA s1 :
    Expect(advance_token(src, s1), {"TOK_STRING_LITERAL"}, LAMBDA sp :
        signature_and_block(src, advance_token(src, sp),
            LAMBDA b : RouteNode(s1.tok.text, sp.tok.text,
                           FunctionNode("handler", b)))))

\* "if (func) { add it to the module }"
AddFunction(S) ==
    IF S.node.kind = "NULL" THEN [S EXCEPT !.nulls = @ + 1]
    ELSE [S EXCEPT !.functions = Append(@, S.node)]

AddApiRoute(S) ==
    IF S.node.kind = "NULL" THEN [S EXCEPT !.nulls = @ + 1]
    ELSE [S EXCEPT !.api_routes = Append(@, S.node)]

\* one iteration of the loop of parser_parse_program
parser_parse_program_iteration(src, S) ==
    IF S.tok.type = "TOK_FN" THEN AddFunction(parser_parse_function(src, S))
    ELSE IF S.tok.type = "TOK_API"
    THEN AddApiRoute(parser_parse_api_route(src, S))
    ELSE advance_token(src, S)


(***************************************************************************)
(*          THE JAVASCRIPT EMITTER (src/compiler/js_emitter.c)              *)
(*                                                                          *)
(* The buffer of the emitter is the sequence of the strings appended to it, *)
(* one element per call of js_emitter_append; the emitted text is their     *)
(* concatenation.                                                           *)
(***************************************************************************)
\* consecutive calls of js_emitter_append
js_emitter_append(code, strs) == code \o strs

\* the Literal parser_parse_block builds for the string of a block
BlockLiteral(block) ==
    [type |-> "NODE_LITERAL", kind |-> "LIT_STRING",
     string_val |-> block.result_expr]

js_emitter_emit_literal(code, literal) ==
    IF literal.kind = "LIT_STRING"
    THEN js_emitter_append(code, <<"\"", literal.string_val, "\"">>)
    ELSE IF literal.kind = "LIT_INT64"
    THEN js_emitter_append(code, <<literal.int64_text>>)
    ELSE IF literal.kind = "LIT_BOOL"
    THEN js_emitter_append(code,
                           <<IF literal.bool_val THEN "true" ELSE "false">>)
    ELSE IF literal.kind = "LIT_UNIT"
    THEN js_emitter_append(code, <<"undefined">>)
    ELSE code

\* calls are never built by the parser linked into mkc
js_emitter_emit_expr(code, node) ==
    IF node.type = "NODE_LITERAL" THEN js_emitter_emit_literal(code, node)
    ELSE IF node.type = "NODE_IDENTIFIER_EXPR"
    THEN js_emitter_append(code, <<node.name>>)
    ELSE js_emitter_append(code, <<"/* TODO: unimplemented expr */">>)

block_result(code, block) ==
    IF block.has_result
    THEN js_emitter_append(
             js_emitter_emit_expr(js_emitter_append(code, <<"    return ">>),
                                  BlockLiteral(block)),
             <<";\n">>)
    ELSE code

\* statement_count is 0 in every block parser_parse_block builds
js_emitter_emit_block(code, block) ==
    js_emitter_append(block_result(js_emitter_append(code, <<"{\n">>), block),
                      <<"}\n">>)

\* parameters and effects are ignored; func->body is never NULL, since
\* parser_parse_block returns a block
js_emitter_emit_function(code, func) ==
    js_emitter_append(
        js_emitter_emit_block(
            js_emitter_append(code, <<"function ", func.name, "(", ") ">>),
            func.body),
        <<"\n">>)

js_emitter_emit_api_route(code, route) ==
    js_emitter_emit_function(
        js_emitter_append(code, <<"// API route: ", route.method, " ",
                                  route.path, "\n">>),
        route.handler)

RECURSIVE emit_api_routes(_, _, _)
emit_api_routes(code, routes, j) ==
    IF j > Len(routes) THEN code
    ELSE emit_api_routes(js_emitter_emit_api_route(code, routes[j]), routes,
                         j + 1)

RECURSIVE emit_functions(_, _, _)
emit_functions(code, functions, j) ==
    IF j > Len(functions) THEN code
    ELSE emit_functions(js_emitter_emit_function(code, functions[j]),
                        functions, j + 1)

\* main_func is set when some function is named main
call_main(code, functions) ==
    IF \E j \in 1..Len(functions) : functions[j].name = "main"
    THEN js_emitter_append(code, <<"\n// Call main function\n",
                                   "console.log(main());\n">>)
    ELSE js_emitter_append(code,
             <<"\n// No main function found\n",
               "console.log(\"No main function defined\");\n">>)

\* js_emitter_emit_program on the one module parser_parse_program builds:
\* the api routes of the module first, then its functions
js_emitter_emit_program(module) ==
    call_main(
        emit_functions(
            emit_api_routes(
                js_emitter_append(<<>>, <<"\"use strict\";\n\n",
                                          "// Manaknight compiled code\n\n">>),
                module.api_routes, 1),
            module.functions, 1),
        module.functions)

(***************************************************************************)
(*          OPENAPI GENERATOR (src/compiler/openapi_generator.c)            *)
(*                                                                          *)
(* The document is the sequence of the strings appended to the buffer.      *)
(***************************************************************************)
\* consecutive calls of openapi_generator_append
openapi_generator_append(doc, strs) == doc \o strs

map_http_method(method) ==
    IF method = "get" THEN "get"
    ELSE IF method = "post" THEN "post"
    ELSE IF method = "put" THEN "put"
    ELSE IF method = "delete" THEN "delete"
    ELSE IF method = "head" THEN "head"
    ELSE method

\* what the loop of openapi_generator_generate_paths appends for one route:
\* a member of "paths" named by the path, whose value has one member named
\* by the method
openapi_route(doc, route, first_path) ==
    openapi_generator_append(
        openapi_generator_append(doc, IF first_path THEN <<>> ELSE <<",\n">>),
        <<"    \"", route.path, "\": {\n",
          "      \"", map_http_method(route.method), "\": {\n",
          "        \"responses\": {\n",
          "          \"200\": {\n",
          "            \"description\": \"Successful response\",\n",
          "            \"content\": {\n",
          "              \"application/json\": {\n",
          "                \"schema\": {\n",
          "                  \"type\": \"string\"\n",
          "                }\n",
          "              }\n",
          "            }\n",
          "          }\n",
          "        }\n",
          "      }\n",
          "    }">>)

RECURSIVE openapi_routes(_, _, _)
openapi_routes(doc, routes, j) ==
    IF j > Len(routes) THEN doc
    ELSE openapi_routes(openapi_route(doc, routes[j], j = 1), routes, j + 1)

\* on the one module parser_parse_program builds
openapi_generator_generate_paths(doc, module) ==
    openapi_generator_append(
        openapi_routes(openapi_generator_append(doc, <<"  \"paths\": {\n">>),
                       module.api_routes, 1),
        <<"\n  }\n">>)

\* openapi_generator_generate, then openapi_generator_get_json
openapi_generator_generate(module) ==
    openapi_generator_append(
        openapi_generator_generate_paths(
            openapi_generator_append(<<>>,
                <<"{\n", "  \"openapi\": \"3.0.0\",\n", "  \"info\": {\n",
                  "    \"title\": \"Manaknight API\",\n",
                  "    \"version\": \"1.0.0\"\n", "  },\n">>),
            module),
        <<"}\n">>)


(***************************************************************************)
(*                     THE DRIVER mkc (src/mkc.c, main)                     *)
(***************************************************************************)
\* the characters that follow the opening of a source file
RestAlphabet == {"\"", "{", "}", "(", "-", "<", "#", "a", " ", "\n"}

\* nothing; the head of a function up to its body; a function body with its
\* string; a function head without return type; the head of an api route
SourceOpenings ==
    {<<>>,
     <<"f", "n", " ", "f", "(", ")", "-", ">", "T", "{">>,
     <<"f", "n", " ", "f", "(", ")", "-", ">", "T", "{", "\"", "a", "\"">>,
     <<"f", "n", " ", "f", "(", ")", "{">>,
     <<"a", "p", "i", " ", "g", "e", "t", " ", "\"", "/", "\"", "(", ")",
       "-", ">", "T", "{">>}

\* fn p()->I{n()} fn n()->I uses{t}{1} : a pure function that calls a
\* function declared with an effect
EffectEscalation ==
    <<"f", "n", " ", "p", "(", ")", "-", ">", "I", "{", "n", "(", ")", "}",
      "f", "n", " ", "n", "(", ")", "-", ">", "I", " ", "u", "s", "e", "s",
      "{", "t", "}", "{", "1", "}">>

\* fn main()->S{"hi"}
Hello ==
    <<"f", "n", " ", "m", "a", "i", "n", "(", ")", "-", ">", "S", "{",
      "\"", "h", "i", "\"", "}">>

\* fn var()->S{"a"} : a function named as a reserved word of JavaScript
ReservedName ==
    <<"f", "n", " ", "v", "a", "r", "(", ")", "-", ">", "S", "{", "\"", "a",
      "\"", "}">>

\* fn f()->S{"a"} api get "/"()->S{"b"} : a function, then an api route
FunctionThenRoute ==
    <<"f", "n", " ", "f", "(", ")", "-", ">", "S", "{", "\"", "a", "\"", "}",
      "a", "p", "i", " ", "g", "e", "t", " ", "\"", "/", "\"", "(", ")",
      "-", ">", "S", "{", "\"", "b", "\"", "}">>

\* api get "/"(a:S)->S{"b"} : an api route that declares a parameter
RouteWithParameter ==
    <<"a", "p", "i", " ", "g", "e", "t", " ", "\"", "/", "\"", "(", "a", ":",
      "S", ")", "-", ">", "S", "{", "\"", "b", "\"", "}">>

\* api a "/"()->S{"b"} : an api route whose method is no HTTP method
RouteWithUnknownMethod ==
    <<"a", "p", "i", " ", "a", " ", "\"", "/", "\"", "(", ")", "-", ">", "S",
      "{", "\"", "b", "\"", "}">>

\* fn f(a:S)->S{"b"} : a function that declares a parameter
FunctionWithParameter ==
    <<"f", "n", " ", "f", "(", "a", ":", "S", ")", "-", ">", "S", "{", "\"",
      "b", "\"", "}">>

\* api get "/"()->S{"a"}api post "/"()->S{"b"} : two methods declared on
\* one path
TwoMethodsOnePath ==
    <<"a", "p", "i", " ", "g", "e", "t", " ", "\"", "/", "\"", "(", ")", "-",
      ">", "S", "{", "\"", "a", "\"", "}",
      "a", "p", "i", " ", "p", "o", "s", "t", " ", "\"", "/", "\"", "(", ")",
      "-", ">", "S", "{", "\"", "b", "\"", "}">>

\* fn f()->S{"\ : a string literal that ends in a backslash and is not closed
UnclosedEscape ==
    <<"f", "n", " ", "f", "(", ")", "-", ">", "S", "{", "\"", "\\">>

SourceFiles ==
    {opening \o rest : opening \in SourceOpenings,
                       rest \in SeqsUpTo(RestAlphabet, MaxRestLen)}
    \cup {EffectEscalation, Hello, ReservedName, FunctionThenRoute,
          RouteWithParameter, RouteWithUnknownMethod, UnclosedEscape,
          TwoMethodsOnePath, FunctionWithParameter}

Modes == {"compile", "-c", "--format", "-f"}

NoToken == [type |-> "", text |-> "", line |-> 0, column |-> 0]

\* mkc started on some arguments and some input file
DriverInit ==
    /\ mk_mode \in Modes
    /\ mk_readable \in BOOLEAN
    /\ mk_phase = "main"
    /\ current_token = NoToken
    /\ program_module = [functions |-> <<>>, api_routes |-> <<>>]
    /\ null_productions = 0
    /\ error_count = 0
    /\ exit_code = -1
    /\ js_code = <<>>
    /\ openapi_spec = <<>>

DriverIdle ==
    /\ mk_mode = "compile"
    /\ mk_readable = TRUE
    /\ mk_phase = "main"
    /\ current_token = NoToken
    /\ program_module = [functions |-> <<>>, api_routes |-> <<>>]
    /\ null_productions = 0
    /\ error_count = 0
    /\ exit_code = -1
    /\ js_code = <<>>
    /\ openapi_spec = <<>>

\* the source file the driver reads, handed to lexer B
DriverLexInit ==
    /\ lex_impl = "B"
    /\ lex_source \in SourceFiles
    /\ lexer = LexerBInit
    /\ lex_tokens = <<>>

\* parser B as the variables hold it
ParserB ==
    [lx |-> lexer, tok |-> current_token, trace |-> lex_tokens,
     functions |-> program_module.functions,
     api_routes |-> program_module.api_routes,
     node |-> NullNode, nulls |-> null_productions]

SetParserB(S) ==
    /\ lexer' = S.lx
    /\ current_token' = S.tok
    /\ lex_tokens' = S.trace
    /\ program_module' = [functions |-> S.functions,
                          api_routes |-> S.api_routes]
    /\ null_productions' = S.nulls

\* main up to the call of compile_manaknight: getopt takes the word after
\* a short -f as its argument, so no input file is left; an unreadable
\* input file ends the run as well
main_arguments ==
    /\ mk_phase = "main"
    /\ IF mk_mode = "-f" \/ ~mk_readable
       THEN mk_phase' = "exit" /\ exit_code' = 1
       ELSE mk_phase' = "compile" /\ exit_code' = exit_code
    /\ UNCHANGED <<mk_mode, mk_readable, current_token, program_module,
                   null_productions, error_count, js_code,
                   openapi_spec>>
    /\ UNCHANGED <<lexVars, diagnostics>>
    /\ UNCHANGED mkOthers

\* compile_manaknight: lexer_create and parser_create; either allocation
\* may fail, which is the one way error_count becomes 1
compile_manaknight ==
    /\ mk_phase = "compile"
    /\ \E allocated \in BOOLEAN :
          IF allocated
          THEN /\ SetParserB(ParserBInit(lex_source))
               /\ mk_phase' = "parse"
               /\ error_count' = 0
          ELSE /\ mk_phase' = "report"
               /\ error_count' = 1
               /\ UNCHANGED <<lexer, lex_tokens, current_token,
                              program_module, null_productions>>
    /\ UNCHANGED <<mk_mode, mk_readable, exit_code, js_code, openapi_spec,
                   lex_impl,
                   lex_source, diagnostics>>
    /\ UNCHANGED mkOthers

\* one iteration of the loop of parser_parse_program, with all it calls
parser_parse_program ==
    /\ mk_phase = "parse"
    /\ current_token.type # "TOK_EOF"
    /\ SetParserB(parser_parse_program_iteration(lex_source, ParserB))
    /\ UNCHANGED <<mk_mode, mk_readable, mk_phase, error_count, exit_code,
                   js_code, openapi_spec, lex_impl, lex_source,
                   diagnostics>>
    /\ UNCHANGED mkOthers

\* the loop ends at end-of-input; the program is never NULL, JavaScript and
\* the OpenAPI document are generated and compile_manaknight returns
parser_parse_program_return ==
    /\ mk_phase = "parse"
    /\ current_token.type = "TOK_EOF"
    /\ mk_phase' = "report"
    /\ js_code' = js_emitter_emit_program(program_module)
    /\ openapi_spec' = openapi_generator_generate(program_module)
    /\ UNCHANGED <<mk_mode, mk_readable, current_token, program_module,
                   null_productions, error_count, exit_code>>
    /\ UNCHANGED <<lexVars, diagnostics>>
    /\ UNCHANGED mkOthers

\* the exit codes main can end with once compile_manaknight has returned:
\* 1 when error_count is positive; in format mode source is freed twice,
\* which either goes unnoticed (0) or aborts the process (134); in compile
\* mode 1 when the output file cannot be written
ExitCodes ==
    IF error_count > 0 THEN {1}
    ELSE IF mk_mode = "--format" THEN {0, 134}
    ELSE IF mk_mode = "-c" THEN {0}
    ELSE {0, 1}

main_report ==
    /\ mk_phase = "report"
    /\ exit_code' \in ExitCodes
    /\ mk_phase' = "exit"
    /\ UNCHANGED <<mk_mode, mk_readable, current_token, program_module,
                   null_productions, error_count, js_code,
                   openapi_spec>>
    /\ UNCHANGED <<lexVars, diagnostics>>
    /\ UNCHANGED mkOthers

NextDriver ==
    \/ main_arguments
    \/ compile_manaknight
    \/ parser_parse_program
    \/ parser_parse_program_return
    \/ main_report


(***************************************************************************)
(*        FORMATTER B (formatter_format_program, linked into mkc)           *)
(*                                                                          *)
(* The formatter F holds the buffer, a sequence of characters, and          *)
(* indent_level.                                                            *)
(***************************************************************************)
INDENT_SIZE == 4

\* the characters of a C string
\* the statements after a call: the call has returned, and left the
\* formatter as F, before they run
After(F, rest(_)) == CHOOSE R \in {rest(G) : G \in {F}} : TRUE

RECURSIVE Chars(_)
Chars(str) == IF str = "" THEN <<>> ELSE <<Head(str)>> \o Chars(Tail(str))

\* formatter_create
FormatterInit == [buffer |-> <<>>, indent_level |-> 0]

formatter_append(F, str) == [F EXCEPT !.buffer = @ \o Chars(str)]

formatter_append_indent(F) ==
    [F EXCEPT !.buffer = @ \o [i \in 1..(F.indent_level * INDENT_SIZE) |-> " "]]

\* formatter->indent_level++ and formatter->indent_level--
indent_more(F) == [F EXCEPT !.indent_level = @ + 1]
indent_less(F) == [F EXCEPT !.indent_level = @ - 1]

\* formatter_format_literal without the closing quote of a string
formatter_format_literal_open(F, literal) ==
    IF literal.kind = "LIT_STRING"
    THEN formatter_append(formatter_append(F, "\""), literal.string_val)
    ELSE F

formatter_format_literal(F, literal) ==
    IF literal.kind = "LIT_STRING"
    THEN formatter_append(
             formatter_append(formatter_append(F, "\""), literal.string_val),
             "\"")
    ELSE IF literal.kind = "LIT_INT64"
    THEN formatter_append(F, literal.int64_text)
    ELSE IF literal.kind = "LIT_BOOL"
    THEN formatter_append(F, IF literal.bool_val THEN "true" ELSE "false")
    ELSE IF literal.kind = "LIT_UNIT"
    THEN formatter_append(F, "unit")
    ELSE F

\* calls are never built by the parser linked into mkc
formatter_format_expr(F, node) ==
    IF node.type = "NODE_LITERAL" THEN formatter_format_literal(F, node)
    ELSE IF node.type = "NODE_IDENTIFIER_EXPR"
    THEN formatter_append(F, node.name)
    ELSE formatter_append(F, "/* TODO: unimplemented expr */")

\* the result expression of a block on a line of its own
format_block_result(F, block) ==
    IF block.has_result
    THEN formatter_append(
             formatter_format_expr(formatter_append_indent(F),
                                   BlockLiteral(block)),
             "\n")
    ELSE F

\* statement_count is 0 in every block parser_parse_block builds
formatter_format_block(F, block) ==
    formatter_append(
        formatter_append_indent(
            indent_less(
                format_block_result(
                    indent_more(formatter_append(F, " {\n")), block))),
        "}\n")

\* the return type written is String whatever the source said; func->body
\* is never NULL, since parser_parse_block returns a block
formatter_format_function(F, func) ==
    formatter_append(
        formatter_format_block(
            formatter_append(
                formatter_append(formatter_append(F, "fn "), func.name),
                "() -> String"),
            func.body),
        "\n")

format_route_head(F, api) ==
    formatter_append(
        formatter_append(
            formatter_append(
                formatter_append(formatter_append(F, "api "), api.method),
                " \""),
            api.path),
        "\" () -> String {\n")

format_route_result(F, api) ==
    IF api.handler.body.has_result
    THEN indent_less(
             formatter_format_expr(formatter_append_indent(indent_more(F)),
                                   BlockLiteral(api.handler.body)))
    ELSE F

formatter_format_api_route(F, api) ==
    formatter_append(format_route_result(format_route_head(F, api), api),
                     "\n}\n\n")

RECURSIVE format_api_routes(_, _, _)
format_api_routes(F, routes, j) ==
    IF j > Len(routes) THEN F
    ELSE After(formatter_format_api_route(F, routes[j]),
               LAMBDA G : format_api_routes(G, routes, j + 1))

RECURSIVE format_functions(_, _, _)
format_functions(F, functions, j) ==
    IF j > Len(functions) THEN F
    ELSE After(formatter_format_function(F, functions[j]),
               LAMBDA G : format_functions(G, functions, j + 1))

\* formatter_format_program on the one module parser_parse_program builds,
\* then formatter_get_code: the api routes first, then the functions
formatter_format_program(module) ==
    format_functions(format_api_routes(FormatterInit, module.api_routes, 1),
                     module.functions, 1).buffer

\* the loop of parser_parse_program, run to end-of-input
RECURSIVE parse_declarations(_, _)
parse_declarations(src, S) ==
    IF S.tok.type = "TOK_EOF" THEN S
    ELSE parse_declarations(src, parser_parse_program_iteration(src, S))

\* lexer_create, parser_create and parser_parse_program on a source text
parser_parse_source(src) == parse_declarations(src, ParserBInit(src))

ParsedModule(S) == [functions |-> S.functions, api_routes |-> S.api_routes]

(***************************************************************************)
(*          FORMATTER A (src/compiler/formatter.c, format_program)          *)
(*                                                                          *)
(* The formatter F holds what has been written to output, a sequence of     *)
(* characters, indent_level and needs_indent.                               *)
(***************************************************************************)
create_formatter == [output |-> <<>>, indent_level |-> 0, needs_indent |-> TRUE]

indent(F) == [F EXCEPT !.indent_level = @ + 2]

dedent(F) == [F EXCEPT !.indent_level = IF @ - 2 < 0 THEN 0 ELSE @ - 2]

newline(F) == [F EXCEPT !.output = Append(@, "\n"), !.needs_indent = TRUE]

write_indent(F) ==
    [F EXCEPT !.output = @ \o [i \in 1..F.indent_level |-> " "]]

\* fprintf(formatter->output, ...): no indentation is written before it
fprintf_output(F, str) == [F EXCEPT !.output = @ \o Chars(str)]

write_string(F, str) ==
    fprintf_output(
        IF F.needs_indent
        THEN [write_indent(F) EXCEPT !.needs_indent = FALSE]
        ELSE F,
        str)

\* consecutive calls of write_string
RECURSIVE write_strings(_, _)
write_strings(F, strs) ==
    IF strs = <<>> THEN F
    ELSE After(write_string(F, Head(strs)),
               LAMBDA G : write_strings(G, Tail(strs)))

\* "%lld" of a value that is not negative
RECURSIVE lld(_)
lld(value) ==
    IF value < 10 THEN DigitChars[value + 1]
    ELSE lld(value \div 10) \o DigitChars[(value % 10) + 1]

\* the constructor patterns parse_pattern builds have no fields
format_pattern(F, pattern) ==
    IF pattern.kind = "NODE_CONSTRUCTOR_PATTERN"
    THEN write_string(F, pattern.constructor)
    ELSE IF pattern.kind = "NODE_WILDCARD_PATTERN"
    THEN write_string(F, "_")
    ELSE F

PrimitiveName(primitive_kind) ==
    CASE primitive_kind = "PRIM_INT" -> "Int"
      [] primitive_kind = "PRIM_BOOL" -> "Bool"
      [] primitive_kind = "PRIM_STRING" -> "String"

\* generic and function types are never built by parse_type
format_type(F, type) ==
    IF type.kind = "NODE_PRIMITIVE_TYPE"
    THEN write_string(F, PrimitiveName(type.primitive_kind))
    ELSE IF type.kind = "NODE_NAMED_TYPE"
    THEN write_string(F, type.name)
    ELSE F

format_literal(F, expr) ==
    IF expr.lit_kind = "LIT_INT" THEN fprintf_output(F, lld(expr.value))
    ELSE IF expr.lit_kind = "LIT_BOOL"
    THEN write_string(F, IF expr.value THEN "true" ELSE "false")
    ELSE fprintf_output(F, "\"" \o expr.value \o "\"")

\* calls, if and match expressions and pipes are never built by
\* parse_primary
format_expression(F, expr) ==
    IF expr.kind = "NODE_LITERAL" THEN format_literal(F, expr)
    ELSE IF expr.kind = "NODE_IDENTIFIER_EXPR"
    THEN write_string(F, expr.name)
    ELSE F

RECURSIVE format_match_cases(_, _, _)
format_match_case(F, cases, i) ==
    format_expression(
        write_string(format_pattern(F, cases[i].pattern), " -> "),
        cases[i].body)

format_match_cases(F, cases, i) ==
    IF i > Len(cases) THEN F
    ELSE After(IF i < Len(cases) THEN newline(format_match_case(F, cases, i))
               ELSE format_match_case(F, cases, i),
               LAMBDA G : format_match_cases(G, cases, i + 1))

RECURSIVE format_statement(_, _)

\* " {", a statement on lines of its own one level in, "}"
format_braces(F, stmt) ==
    write_string(
        newline(dedent(format_statement(
            indent(newline(write_string(F, " {"))), stmt))),
        "}")

format_else(F, stmt) ==
    IF stmt.else_branch.kind = "NULL" THEN F
    ELSE format_braces(write_string(F, " else"), stmt.else_branch)

format_statement(F, stmt) ==
    IF stmt.kind = "NODE_LET_STMT"
    THEN format_expression(write_strings(F, <<"let ", stmt.name, " = ">>),
                           stmt.expr)
    ELSE IF stmt.kind = "NODE_EXPR_STMT"
    THEN format_expression(F, stmt.expr)
    ELSE IF stmt.kind = "NODE_IF_STMT"
    THEN format_else(
             format_braces(
                 format_expression(write_string(F, "if "), stmt.condition),
                 stmt.then_branch),
             stmt)
    ELSE IF stmt.kind = "NODE_MATCH_STMT"
    THEN write_string(
             newline(dedent(format_match_cases(
                 indent(newline(write_string(
                     format_expression(write_string(F, "match "),
                                       stmt.scrutinee),
                     " {"))),
                 stmt.cases, 1))),
             "}")
    ELSE F

RECURSIVE format_parameters(_, _, _)
format_parameters(F, params, i) ==
    IF i > Len(params) THEN F
    ELSE After(write_strings(
                   format_type(write_strings(F, <<params[i].name, ": ">>),
                               params[i].type),
                   IF i < Len(params) THEN <<", ">> ELSE <<>>),
               LAMBDA G : format_parameters(G, params, i + 1))

\* the return type is written unless it is a primitive type
format_return_type(F, return_type) ==
    IF return_type.kind # "NULL" /\ return_type.kind # "NODE_PRIMITIVE_TYPE"
    THEN format_type(write_string(F, ": "), return_type)
    ELSE F

RECURSIVE format_effect_names(_, _, _)
format_effect_names(F, effects, i) ==
    IF i > Len(effects) THEN F
    ELSE After(write_strings(F, IF i < Len(effects)
                                THEN <<effects[i], ", ">>
                                ELSE <<effects[i]>>),
               LAMBDA G : format_effect_names(G, effects, i + 1))

format_effects(F, effects) ==
    IF Len(effects) > 0
    THEN write_string(
             format_effect_names(write_string(F, " uses { "), effects, 1),
             " }")
    ELSE F

format_body(F, body) ==
    IF body.kind = "NULL" THEN F ELSE format_statement(F, body)

\* " {", the body one level in when there is one, "}"
format_body_braces(F, body) ==
    write_string(
        newline(dedent(format_body(indent(newline(write_string(F, " {"))),
                                   body))),
        "}")

format_function_declaration(F, func) ==
    After(write_string(
              format_parameters(
                  write_strings(F, <<"function ", func.name, "(">>),
                  func.params, 1),
              ")"),
          LAMBDA f1 :
              After(format_effects(format_return_type(f1, func.return_type),
                                   func.effects),
                    LAMBDA f2 : format_body_braces(f2, func.body)))

\* the body of the type is not written, the braces are
format_type_declaration(F, type_decl) ==
    write_strings(F, <<"type ", type_decl.name, " {", " }">>)

format_effect_declaration(F, effect) ==
    write_strings(F, <<"effect ", effect.name>>)

format_import_declaration(F, import_decl) ==
    write_strings(F, IF import_decl.alias.kind = "NULL"
                     THEN <<"import ", import_decl.module_path>>
                     ELSE <<"import ", import_decl.module_path, " as ",
                            import_decl.alias.text>>)

format_declaration(F, decl) ==
    IF decl.kind = "NODE_FUNCTION_DECL"
    THEN format_function_declaration(F, decl)
    ELSE IF decl.kind = "NODE_TYPE_DECL"
    THEN format_type_declaration(F, decl)
    ELSE IF decl.kind = "NODE_EFFECT_DECL"
    THEN format_effect_declaration(F, decl)
    ELSE IF decl.kind = "NODE_IMPORT_DECL"
    THEN format_import_declaration(F, decl)
    ELSE F

RECURSIVE format_declarations(_, _, _)
format_declarations(F, decls, i) ==
    IF i > Len(decls) THEN F
    ELSE After(IF i < Len(decls) THEN newline(format_declaration(F, decls[i]))
               ELSE format_declaration(F, decls[i]),
               LAMBDA G : format_declarations(G, decls, i + 1))

format_module(F, module) ==
    After(indent(newline(write_strings(F, <<"module ", module.name,
                                            " {">>))),
          LAMBDA f1 :
              write_string(
                  newline(dedent(format_declarations(f1, module.decls, 1))),
                  "}"))

format_api(F, api) ==
    format_body_braces(
        write_strings(F, <<"api ", api.method, " ", api.path>>), api.body)

RECURSIVE format_modules(_, _, _)
format_modules(F, program, i) ==
    IF i > Len(program.modules) THEN F
    ELSE After(IF i < Len(program.modules) \/ Len(program.apis) > 0
               THEN newline(format_module(F, program.modules[i]))
               ELSE format_module(F, program.modules[i]),
               LAMBDA G : format_modules(G, program, i + 1))

RECURSIVE format_apis(_, _, _)
format_apis(F, program, i) ==
    IF i > Len(program.apis) THEN F
    ELSE After(IF i < Len(program.apis)
               THEN newline(format_api(F, program.apis[i]))
               ELSE format_api(F, program.apis[i]),
               LAMBDA G : format_apis(G, program, i + 1))

\* format_program, and what it has written to output
format_program(program) ==
    format_apis(format_modules(create_formatter, program, 1), program, 1)
        .output

\* next_token called until it returns end-of-input
RECURSIVE scan_tokens(_, _, _)
scan_token(src, r, toks) ==
    IF r.tok.type = "TOKEN_EOF" THEN Append(toks, r.tok)
    ELSE scan_tokens(src, r.lx, Append(toks, r.tok))

scan_tokens(src, lx, toks) == scan_token(src, next_token_result(src, lx), toks)

\* what parse_program leaves: the program, unless a loop never ends, and
\* the diagnostics
ParsedProgram(P) ==
    [program |-> IF P.hung THEN NullNode ELSE P.node, diags |-> P.diags,
     hung |-> P.hung]

\* create_lexer, create_parser and parse_program on a source text
parse_program_source(src) ==
    ParsedProgram(program_declarations(scan_tokens(src, LexerAInit, <<>>),
                                       ParserAInit, <<>>, <<>>))

(***************************************************************************)
(*                  THE FORMATTER AS A STATE MACHINE                        *)
(*                                                                          *)
(* A run parses the text it is given and prints the formatted module; the   *)
(* next run is given what the run before it printed.                        *)
(***************************************************************************)
\* the declarations a module of a source text for parser A is made of
DeclarationTexts ==
    {"type T", "effect e", "function f() { 1 }", "function f() { true }",
     "function f(a: T, b: T): T { a }", "function f() uses { e } { \"s\" }",
     "function f() { let a = 07 }", "function f() { if a { 1 } else 2 }",
     "function f() { match a { } }"}

RECURSIVE JoinLines(_)
JoinLines(texts) ==
    IF texts = <<>> THEN <<>>
    ELSE Chars(Head(texts)) \o <<"\n">> \o JoinLines(Tail(texts))

\* a module m of up to MaxDecls declarations, and an api route or none
ModuleSources ==
    {Chars("module m {\n") \o JoinLines(decls) \o Chars("}\n") \o Chars(api)
        : decls \in SeqsUpTo(DeclarationTexts, MaxDecls),
          api \in {"", "api GET \"/a\" { 1 }"}}

FormatInit ==
    /\ fmt_impl \in {"A", "B"}
    /\ fmt_text \in {<<src>> : src \in IF fmt_impl = "A" THEN ModuleSources
                                      ELSE SourceFiles}
    /\ fmt_asts = <<>>

FormatIdle ==
    /\ fmt_impl = "B"
    /\ fmt_text = << <<>> >>
    /\ fmt_asts = <<>>

\* format mode of main: the source is parsed again for formatting
format_parse ==
    /\ fmt_impl = "B"
    /\ Len(fmt_asts) < Len(fmt_text)
    /\ Len(fmt_asts) < MaxRuns
    /\ fmt_asts' = Append(fmt_asts,
           ParsedModule(parser_parse_source(fmt_text[Len(fmt_text)])))
    /\ UNCHANGED <<fmt_impl, fmt_text>>
    /\ UNCHANGED fmtOthers

\* format mode of main: formatter_format_program, and the code is printed
format_print ==
    /\ fmt_impl = "B"
    /\ Len(fmt_asts) = Len(fmt_text)
    /\ fmt_text' = Append(fmt_text,
           formatter_format_program(fmt_asts[Len(fmt_asts)]))
    /\ UNCHANGED <<fmt_impl, fmt_asts>>
    /\ UNCHANGED fmtOthers

\* create_lexer, create_parser and parse_program on the text
format_a_parse ==
    /\ fmt_impl = "A"
    /\ Len(fmt_asts) < Len(fmt_text)
    /\ Len(fmt_asts) < MaxRuns
    /\ fmt_asts' = Append(fmt_asts,
                          parse_program_source(fmt_text[Len(fmt_text)]))
    /\ UNCHANGED <<fmt_impl, fmt_text>>
    /\ UNCHANGED fmtOthers

\* create_formatter and format_program on a program that parsed without a
\* diagnostic
format_a_print ==
    /\ fmt_impl = "A"
    /\ Len(fmt_asts) = Len(fmt_text)
    /\ ~fmt_asts[Len(fmt_asts)].hung
    /\ fmt_asts[Len(fmt_asts)].diags = <<>>
    /\ fmt_text' = Append(fmt_text,
                          format_program(fmt_asts[Len(fmt_asts)].program))
    /\ UNCHANGED <<fmt_impl, fmt_asts>>
    /\ UNCHANGED fmtOthers

NextFormat == format_parse \/ format_print \/ format_a_parse \/ format_a_print


(***************************************************************************)
(*                  TYPE CHECKER (type_checker.c)                           *)
(*                                                                          *)
(* The checker state T holds the symbol table (scopes, each a list of       *)
(* symbols with name, kind and type), the codes reported (diags),           *)
(* checker->has_errors, and what the call that ran last returned: ok for    *)
(* a bool, type for a Type*.                                                *)
(***************************************************************************)
TypeNull == [kind |-> "NULL", name |-> ""]
PrimitiveType(name) == [kind |-> "primitive", name |-> name]
NamedType(name) == [kind |-> "named", name |-> name]
\* create_function_type(NULL, 0, return_type, ...): the type the first pass
\* of type_check_module gives a function; nothing fills the parameters in
FunctionType(name, return_type) ==
    [kind |-> "function", name |-> name, param_count |-> 0, params |-> <<>>,
     return_type |-> return_type]

Sym(name, kind, type) == [name |-> name, kind |-> kind, type |-> type]

NoSymbol == Sym("", "none", TypeNull)

\* load_prelude: the core types, declared in the global scope
PreludeSymbols ==
    <<Sym("Option", "type", NamedType("Option")),
      Sym("Result", "type", NamedType("Result")),
      Sym("List", "type", NamedType("List")),
      Sym("Map", "type", NamedType("Map")),
      Sym("Bool", "type", PrimitiveType("Bool")),
      Sym("Int", "type", PrimitiveType("Int")),
      Sym("String", "type", PrimitiveType("String"))>>

\* create_type_checker on a fresh symbol table
CheckerInit ==
    [scopes |-> << <<>> >>, diags |-> <<>>, has_errors |-> FALSE,
     ok |-> TRUE, type |-> TypeNull]

RetBool(T, b) == [T EXCEPT !.ok = b]
RetType(T, ty) == [T EXCEPT !.type = ty]

report_type_error_at(T, code) ==
    [T EXCEPT !.has_errors = TRUE, !.diags = Append(@, code)]

lookup_symbol_in_scope(scope, name) ==
    IF \E i \in 1..Len(scope) : scope[i].name = name
    THEN scope[CHOOSE i \in 1..Len(scope) : scope[i].name = name]
    ELSE NoSymbol

\* resolve_symbol: the current scope first, then its parents
RECURSIVE resolve_from(_, _, _)
resolve_from(scs, d, name) ==
    IF d = 0 THEN NoSymbol
    ELSE IF lookup_symbol_in_scope(scs[d], name).kind # "none"
    THEN lookup_symbol_in_scope(scs[d], name)
    ELSE resolve_from(scs, d - 1, name)

resolve_symbol(scs, name) == resolve_from(scs, Len(scs), name)

\* declare_symbol as the checker calls it: E2006 when the current scope
\* has the name, else the symbol joins the current scope
checker_declare(T, sym) ==
    IF ~allow_shadows
       /\ lookup_symbol_in_scope(T.scopes[Len(T.scopes)], sym.name).kind # "none"
    THEN [T EXCEPT !.diags = Append(@, 2006), !.ok = FALSE]
    ELSE [T EXCEPT !.scopes[Len(T.scopes)] = Append(@, sym), !.ok = TRUE]

checker_enter_scope(T) == [T EXCEPT !.scopes = Append(@, <<>>)]

checker_exit_scope(T) ==
    IF Len(T.scopes) = 1 THEN T
    ELSE [T EXCEPT !.scopes = SubSeq(@, 1, Len(@) - 1)]

types_equal(a, b) ==
    /\ a.kind # "NULL" /\ b.kind # "NULL"
    /\ a.kind = b.kind
    /\ a.name = b.name

\* a named type is replaced by the type of the type symbol of that name
resolved_named(type, symbol) ==
    IF symbol.kind = "type" THEN symbol.type ELSE type

resolve_type(type, scs) ==
    IF type.kind = "named"
    THEN resolved_named(type, resolve_symbol(scs, type.name))
    ELSE type

type_check_literal(e) ==
    IF e.lit_kind \in {"Int", "Bool", "String"} THEN PrimitiveType(e.lit_kind)
    ELSE TypeNull

identifier_type(T, symbol) ==
    IF symbol.kind = "none" THEN RetType(report_type_error_at(T, 2001), TypeNull)
    ELSE RetType(T, resolve_type(symbol.type, T.scopes))

type_check_identifier(T, e) ==
    identifier_type(T, resolve_symbol(T.scopes, e.name))

RECURSIVE type_check_expression(_, _)
RECURSIVE match_branches(_, _, _, _)

\* the branch loop of type_check_match after the type of branch i is known
match_branch(T, cases, i, result_type) ==
    IF T.type.kind = "NULL" THEN T
    ELSE IF result_type.kind = "NULL"
    THEN match_branches(T, cases, i + 1, T.type)
    ELSE IF ~types_equal(result_type, T.type)
    THEN RetType(report_type_error_at(T, 4004), TypeNull)
    ELSE match_branches(T, cases, i + 1, result_type)

match_branches(T, cases, i, result_type) ==
    IF i > Len(cases) THEN RetType(T, result_type)
    ELSE match_branch(type_check_expression(T, cases[i].body), cases, i,
                      result_type)

\* type_check_match: the scrutinee, then the branches; no constructor is
\* looked at
match_after_scrutinee(T, e) ==
    IF T.type.kind = "NULL" THEN T
    ELSE match_branches(T, e.cases, 1, TypeNull)

type_check_match(T, e) ==
    match_after_scrutinee(type_check_expression(T, e.scrutinee), e)

RECURSIVE call_arguments(_, _, _, _)

\* the argument loop of type_check_call once the type of argument i is known
call_argument(T, e, callee_type, i) ==
    IF T.type.kind = "NULL" \/ ~types_equal(T.type, callee_type.params[i])
    THEN RetType(report_type_error_at(T, 2002), TypeNull)
    ELSE call_arguments(T, e, callee_type, i + 1)

call_arguments(T, e, callee_type, i) ==
    IF i > Len(e.args)
    THEN RetType(T, resolve_type(callee_type.return_type, T.scopes))
    ELSE call_argument(type_check_expression(T, e.args[i]), e, callee_type, i)

\* type_check_call once the type of the callee is known: the number of
\* arguments is compared with param_count of the callee's function type
call_after_callee(T, e) ==
    IF T.type.kind # "function"
    THEN RetType(report_type_error_at(T, 2003), TypeNull)
    ELSE IF Len(e.args) # T.type.param_count
    THEN RetType(report_type_error_at(T, 2003), TypeNull)
    ELSE call_arguments(T, e, T.type, 1)

type_check_call(T, e) ==
    call_after_callee(type_check_expression(T, e.callee), e)

\* if-expressions and pipes are not among the expressions checked here
type_check_expression(T, e) ==
    IF e.kind = "NODE_LITERAL" THEN RetType(T, type_check_literal(e))
    ELSE IF e.kind = "NODE_IDENTIFIER_EXPR" THEN type_check_identifier(T, e)
    ELSE IF e.kind = "NODE_CALL_EXPR" THEN type_check_call(T, e)
    ELSE IF e.kind = "NODE_MATCH_EXPR" THEN type_check_match(T, e)
    ELSE RetType(report_type_error_at(T, 2001), TypeNull)

\* placeholders of the source: both return true for every argument
check_match_exhaustiveness(T, match_expr) == TRUE
check_control_flow_totality(T, stmt) == TRUE


RECURSIVE type_check_statement(_, _)

\* type_check_let_statement once the type of the expression is known
let_declared(T) ==
    IF T.ok THEN T ELSE [T EXCEPT !.has_errors = TRUE]

let_after_expression(T, stmt) ==
    IF T.type.kind = "NULL" THEN RetBool(T, FALSE)
    ELSE let_declared(checker_declare(T, Sym(stmt.name, "variable", T.type)))

type_check_let_statement(T, stmt) ==
    let_after_expression(type_check_expression(T, stmt.expr), stmt)

\* type_check_if_statement: the else branch is checked when there is one
if_after_then(T, stmt) ==
    IF ~T.ok THEN T
    ELSE IF stmt.else_branch.kind # "NULL"
    THEN type_check_statement(T, stmt.else_branch)
    ELSE RetBool(T, TRUE)

if_after_condition(T, stmt) ==
    IF T.type # PrimitiveType("Bool")
    THEN RetBool(report_type_error_at(T, 2007), FALSE)
    ELSE if_after_then(type_check_statement(T, stmt.then_branch), stmt)

type_check_if_statement(T, stmt) ==
    if_after_condition(type_check_expression(T, stmt.condition), stmt)

\* the case loop of type_check_match_statement: each case body, an
\* expression, is handed to type_check_statement as if it were a statement
RECURSIVE match_statement_cases(_, _, _)
match_statement_case(T, stmt, i) ==
    IF ~T.ok THEN T ELSE match_statement_cases(T, stmt, i + 1)

match_statement_cases(T, stmt, i) ==
    IF i > Len(stmt.cases)
    THEN RetBool(T, check_match_exhaustiveness(T, stmt))
    ELSE match_statement_case(type_check_statement(T, stmt.cases[i].body),
                              stmt, i)

match_statement_after_scrutinee(T, stmt) ==
    IF T.type.kind = "NULL" THEN RetBool(T, FALSE)
    ELSE match_statement_cases(T, stmt, 1)

type_check_match_statement(T, stmt) ==
    match_statement_after_scrutinee(
        type_check_expression(T, stmt.scrutinee), stmt)

expression_checked(T) == RetBool(T, T.type.kind # "NULL")

\* the switch of type_check_statement; any other kind of node is refused
type_check_statement(T, stmt) ==
    IF stmt.kind = "NODE_LET_STMT" THEN type_check_let_statement(T, stmt)
    ELSE IF stmt.kind = "NODE_EXPR_STMT"
    THEN expression_checked(type_check_expression(T, stmt.expr))
    ELSE IF stmt.kind = "NODE_IF_STMT" THEN type_check_if_statement(T, stmt)
    ELSE IF stmt.kind = "NODE_MATCH_STMT"
    THEN type_check_match_statement(T, stmt)
    ELSE RetBool(T, FALSE)

\* the parameter loop of type_check_function_declaration: the first
\* parameter that cannot be declared ends the check of the function
RECURSIVE declare_parameters(_, _, _)
parameter_declared(T, decl, i) ==
    IF ~T.ok THEN T ELSE declare_parameters(T, decl, i + 1)

declare_parameters(T, decl, i) ==
    IF i > Len(decl.params) THEN RetBool(T, TRUE)
    ELSE parameter_declared(
             checker_declare(T, Sym(decl.params[i].name, "variable",
                                    decl.params[i].type)),
             decl, i)

\* the body is checked, then totality; E2005 when totality fails
body_checked(T, decl) ==
    IF ~check_control_flow_totality(T, decl.body)
    THEN RetBool(report_type_error_at(T, 2005), FALSE)
    ELSE T

\* a check that returns from a failed parameter declaration without
\* leaving the function scope
function_after_parameters_no_exit(T, decl) ==
    IF ~T.ok THEN T
    ELSE checker_exit_scope(body_checked(type_check_statement(T, decl.body),
                                         decl))

function_after_parameters(T, decl) ==
    IF ~T.ok THEN checker_exit_scope(T)
    ELSE checker_exit_scope(body_checked(type_check_statement(T, decl.body),
                                         decl))

type_check_function_declaration(T, decl) ==
    function_after_parameters(
        declare_parameters(checker_enter_scope(T), decl, 1), decl)

type_check_declaration(T, decl) ==
    IF decl.kind = "NODE_FUNCTION_DECL"
    THEN type_check_function_declaration(T, decl)
    ELSE IF decl.kind \in {"NODE_TYPE_DECL", "NODE_EFFECT_DECL",
                           "NODE_IMPORT_DECL"}
    THEN RetBool(T, TRUE)
    ELSE RetBool(T, FALSE)

\* the symbol the first pass of type_check_module declares for a declaration
DeclSymbol(decl) ==
    IF decl.kind = "NODE_FUNCTION_DECL"
    THEN Sym(decl.name, "function",
             FunctionType(decl.name, decl.return_type))
    ELSE IF decl.kind = "NODE_TYPE_DECL" THEN Sym(decl.name, "type", TypeNull)
    ELSE Sym(decl.name, "effect", TypeNull)

\* first pass of type_check_module: every function, type and effect is
\* declared; a name that cannot be declared sets has_errors
RECURSIVE declare_all(_, _, _)
declare_all(T, decls, i) ==
    IF i > Len(decls) THEN T
    ELSE IF decls[i].kind \in {"NODE_FUNCTION_DECL", "NODE_TYPE_DECL",
                               "NODE_EFFECT_DECL"}
    THEN declare_all(let_declared(checker_declare(T, DeclSymbol(decls[i]))),
                     decls, i + 1)
    ELSE declare_all(T, decls, i + 1)

\* load_prelude, called with the global scope current
RECURSIVE load_prelude(_, _)
load_prelude(T, i) ==
    IF i > Len(PreludeSymbols) THEN T
    ELSE load_prelude(checker_declare(T, PreludeSymbols[i]), i + 1)


(***************************************************************************)
(*                 THE TYPE CHECKER AS A STATE MACHINE                      *)
(***************************************************************************)
Literal(lit_kind) == [kind |-> "NODE_LITERAL", lit_kind |-> lit_kind]
Identifier(name) == [kind |-> "NODE_IDENTIFIER_EXPR", name |-> name]
ConstructorPattern(constructor) ==
    [kind |-> "NODE_CONSTRUCTOR_PATTERN", constructor |-> constructor]
WildcardPattern == [kind |-> "NODE_WILDCARD_PATTERN", constructor |-> ""]
MatchCase(pattern, body) == [pattern |-> pattern, body |-> body]
MatchExpr(scrutinee, cases) ==
    [kind |-> "NODE_MATCH_EXPR", scrutinee |-> scrutinee, cases |-> cases]
LetStmt(name, expr) == [kind |-> "NODE_LET_STMT", name |-> name, expr |-> expr]
ExprStmt(expr) == [kind |-> "NODE_EXPR_STMT", expr |-> expr]
NoStmt == [kind |-> "NULL"]
IfStmt(condition, then_branch, else_branch) ==
    [kind |-> "NODE_IF_STMT", condition |-> condition,
     then_branch |-> then_branch, else_branch |-> else_branch]
MatchStmt(scrutinee, cases) ==
    [kind |-> "NODE_MATCH_STMT", scrutinee |-> scrutinee, cases |-> cases]
\* the return type is Int where the source names none
FunctionDecl(name, params, body) ==
    [kind |-> "NODE_FUNCTION_DECL", name |-> name, params |-> params,
     return_type |-> PrimitiveType("Int"), body |-> body]
TypeDecl(name) == [kind |-> "NODE_TYPE_DECL", name |-> name]

\* the programs handed to the checker: one module with one function f,
\* with or without a declared type T before it
CaseLists ==
    SeqsUpTo({MatchCase(p, Literal("Int")) :
                 p \in {ConstructorPattern("Some"), ConstructorPattern("None"),
                        WildcardPattern}},
             MaxCases)

SimpleStatements ==
    {LetStmt("y", Literal("Int")), LetStmt("x", Literal("Int")),
     ExprStmt(Literal("Int")), ExprStmt(Identifier("x")),
     ExprStmt(Identifier("y"))}

Bodies ==
    SimpleStatements
    \cup {ExprStmt(MatchExpr(Identifier("x"), cases)) : cases \in CaseLists}
    \cup {MatchStmt(Identifier("x"), cases) : cases \in CaseLists}
    \cup {IfStmt(c, t, e) : c \in {Literal("Bool"), Identifier("x")},
                            t \in SimpleStatements,
                            e \in SimpleStatements \cup {NoStmt}}

ParamLists ==
    {<<>>, <<Param("x", NamedType("Option"))>>,
     <<Param("x", NamedType("Int"))>>, <<Param("x", NamedType("T"))>>,
     <<Param("x", NamedType("Option")), Param("x", NamedType("Option"))>>}

CallExpr(callee, args) ==
    [kind |-> "NODE_CALL_EXPR", callee |-> callee, args |-> args]

\* a function g of up to MaxArity Int parameters, and a function f whose
\* body calls g, or the variable x, with up to MaxArity arguments
CalleeParamLists ==
    {<<>>, <<Param("x", NamedType("Int"))>>,
     <<Param("x", NamedType("Int")), Param("y", NamedType("Int"))>>}

CallPrograms ==
    {<<FunctionDecl("g", gparams, ExprStmt(Literal("Int"))),
       FunctionDecl("f", <<Param("x", NamedType("Int"))>>,
                    ExprStmt(CallExpr(Identifier(callee), args)))>> :
        gparams \in CalleeParamLists, callee \in {"g", "x"},
        args \in SeqsUpTo({Literal("Int"), Literal("Bool")}, MaxArity)}

Programs ==
    {prefix \o <<FunctionDecl("f", params, body)>> :
        prefix \in {<<>>, <<TypeDecl("T")>>},
        params \in ParamLists, body \in Bodies}
    \cup CallPrograms

\* create_type_checker on the declarations of some program
CheckerStateInit ==
    /\ tc_program \in Programs
    /\ checker = [scopes |-> << <<>> >>, has_errors |-> FALSE, ok |-> TRUE,
                  type |-> TypeNull]
    /\ tc_next = 1
    /\ tc_status = "created"

CheckerIdle ==
    /\ tc_program = <<>>
    /\ checker = [scopes |-> << <<>> >>, has_errors |-> FALSE, ok |-> TRUE,
                  type |-> TypeNull]
    /\ tc_next = 1
    /\ tc_status = "created"

\* the checker as the variables hold it
Checker ==
    [scopes |-> checker.scopes, diags |-> diagnostics,
     has_errors |-> checker.has_errors, ok |-> checker.ok,
     type |-> checker.type]

SetChecker(T) ==
    /\ checker' = [scopes |-> T.scopes, has_errors |-> T.has_errors,
                   ok |-> T.ok, type |-> T.type]
    /\ diagnostics' = T.diags

\* type_check_program up to the second pass of type_check_module:
\* load_prelude, the module scope, and the first pass over the declarations
type_check_program ==
    /\ tc_status = "created"
    /\ SetChecker(declare_all(
           checker_enter_scope(
               load_prelude([Checker EXCEPT !.has_errors = FALSE], 1)),
           tc_program, 1))
    /\ tc_status' = "checking"
    /\ UNCHANGED <<tc_program, tc_next>>
    /\ UNCHANGED tcOthers

\* has_errors is set when the check of a declaration returns false
declaration_checked(T) ==
    IF T.ok THEN T ELSE [T EXCEPT !.has_errors = TRUE]

\* one iteration of the second pass of type_check_module
type_check_module ==
    /\ tc_status = "checking"
    /\ tc_next <= Len(tc_program)
    /\ SetChecker(declaration_checked(
           type_check_declaration(Checker, tc_program[tc_next])))
    /\ tc_next' = tc_next + 1
    /\ UNCHANGED <<tc_program, tc_status>>
    /\ UNCHANGED tcOthers

\* the module scope is left and type_check_program returns !has_errors
type_check_program_return ==
    /\ tc_status = "checking"
    /\ tc_next > Len(tc_program)
    /\ SetChecker(checker_exit_scope(Checker))
    /\ tc_status' = IF checker.has_errors THEN "rejected" ELSE "passed"
    /\ UNCHANGED <<tc_program, tc_next>>
    /\ UNCHANGED tcOthers

NextChecker ==
    type_check_program \/ type_check_module \/ type_check_program_return

(***************************************************************************)
(*                  THE HTTP SERVER OF THE RUNTIME                          *)
(*                                                                          *)
(* manaknight_runtime.c keeps the listening descriptor and the running flag *)
(* in two globals that the worker thread and the thread calling             *)
(* manaknight_stop_http_server share without a lock.  Each access to a      *)
(* global and each system call is one step, so that every interleaving of   *)
(* the two threads is a behaviour.                                          *)
(***************************************************************************)
\* the descriptor socket() hands out
ListenFd == 3

\* how manaknight_start_http_server can end: at the call that fails, or "ok"
StartOutcomes == {"socket", "bind", "listen", "pthread_create", "ok"}

\* the globals as the file initializes them; no thread started
ServerInit ==
    /\ http_server_socket = -1
    /\ http_server_running = FALSE
    /\ http_server_thread = "none"
    /\ srv_main = "start"
    /\ srv_listening = FALSE
    /\ srv_backlog = 0
    /\ srv_accepts = {}

ServerIdle == ServerInit

\* manaknight_start_http_server: the globals are assigned before the worker
\* exists, so the whole call is one step.  A failure after socket() closes
\* the descriptor and leaves its number in http_server_socket; a failed
\* pthread_create leaves http_server_running set.
manaknight_start_http_server ==
    /\ srv_main = "start"
    /\ \E outcome \in StartOutcomes :
        /\ http_server_socket' = IF outcome = "socket" THEN -1 ELSE ListenFd
        /\ srv_listening' = (outcome = "ok")
        /\ http_server_running' = (outcome \in {"pthread_create", "ok"})
        /\ http_server_thread' = IF outcome = "ok" THEN "while" ELSE "none"
        /\ srv_main' = IF outcome = "ok" THEN "serving" ELSE "failed"
    /\ UNCHANGED <<srv_backlog, srv_accepts>>
    /\ UNCHANGED srvOthers

\* a client connects to the port: the connection waits in the backlog of the
\* listening socket, which lives while its descriptor is open or a thread is
\* inside accept on it, and which holds so many connections and no more
client_connects ==
    /\ srv_listening \/ http_server_thread = "blocked"
    /\ srv_backlog < MaxBacklog
    /\ srv_backlog' = srv_backlog + 1
    /\ UNCHANGED <<http_server_socket, http_server_running,
                   http_server_thread, srv_main, srv_listening, srv_accepts>>
    /\ UNCHANGED srvOthers

\* while (http_server_running): the worker reads the flag
http_server_worker_while ==
    /\ http_server_thread = "while"
    /\ http_server_thread' = IF http_server_running THEN "accept" ELSE "exited"
    /\ UNCHANGED <<http_server_socket, http_server_running, srv_main,
                   srv_listening, srv_backlog, srv_accepts>>
    /\ UNCHANGED srvOthers

\* where accept(fd) leaves the worker: at the test of the loop when it fails
\* (continue), at the response when a connection waits, else blocked
accept(fd) ==
    IF fd < 0 \/ ~srv_listening THEN "while"
    ELSE IF srv_backlog > 0 THEN "respond"
    ELSE "blocked"

\* the worker reads http_server_socket and calls accept with it
http_server_worker_accept ==
    /\ http_server_thread = "accept"
    /\ http_server_thread' = accept(http_server_socket)
    /\ srv_backlog' = IF http_server_thread' = "respond" THEN srv_backlog - 1
                      ELSE srv_backlog
    /\ srv_accepts' = srv_accepts \cup
                        {[fd |-> http_server_socket, stop |-> srv_main]}
    /\ UNCHANGED <<http_server_socket, http_server_running, srv_main,
                   srv_listening>>
    /\ UNCHANGED srvOthers

\* a blocked accept returns the connection that arrives, also when the
\* descriptor has been closed in the meantime: the call holds the socket
http_server_worker_accepted ==
    /\ http_server_thread = "blocked"
    /\ srv_backlog > 0
    /\ http_server_thread' = "respond"
    /\ srv_backlog' = srv_backlog - 1
    /\ UNCHANGED <<http_server_socket, http_server_running, srv_main,
                   srv_listening, srv_accepts>>
    /\ UNCHANGED srvOthers

\* on systems where close wakes the threads blocked on the descriptor the
\* blocked accept fails; other systems never take this step
http_server_worker_woken ==
    /\ http_server_thread = "blocked"
    /\ ~srv_listening
    /\ http_server_thread' = "while"
    /\ UNCHANGED <<http_server_socket, http_server_running, srv_main,
                   srv_listening, srv_backlog, srv_accepts>>
    /\ UNCHANGED srvOthers

\* write(client_socket, response) and close(client_socket)
http_server_worker_respond ==
    /\ http_server_thread = "respond"
    /\ http_server_thread' = "while"
    /\ UNCHANGED <<http_server_socket, http_server_running, srv_main,
                   srv_listening, srv_backlog, srv_accepts>>
    /\ UNCHANGED srvOthers

\* manaknight_stop_http_server, first statement: http_server_running = false
manaknight_stop_http_server ==
    /\ srv_main = "serving"
    /\ http_server_running' = FALSE
    /\ srv_main' = "stop_close"
    /\ UNCHANGED <<http_server_socket, http_server_thread, srv_listening,
                   srv_backlog, srv_accepts>>
    /\ UNCHANGED srvOthers

\* if (http_server_socket >= 0) close(http_server_socket)
manaknight_stop_http_server_close ==
    /\ srv_main = "stop_close"
    /\ IF http_server_socket >= 0
       THEN /\ srv_listening' = FALSE
            /\ srv_main' = "stop_reset"
       ELSE /\ srv_listening' = srv_listening
            /\ srv_main' = "stop_join"
    /\ UNCHANGED <<http_server_socket, http_server_running,
                   http_server_thread, srv_backlog, srv_accepts>>
    /\ UNCHANGED srvOthers

\* http_server_socket = -1
manaknight_stop_http_server_reset ==
    /\ srv_main = "stop_reset"
    /\ http_server_socket' = -1
    /\ srv_main' = "stop_join"
    /\ UNCHANGED <<http_server_running, http_server_thread, srv_listening,
                   srv_backlog, srv_accepts>>
    /\ UNCHANGED srvOthers

\* pthread_join returns once the worker has returned
manaknight_stop_http_server_join ==
    /\ srv_main = "stop_join"
    /\ http_server_thread = "exited"
    /\ srv_main' = "stopped"
    /\ UNCHANGED <<http_server_socket, http_server_running,
                   http_server_thread, srv_listening, srv_backlog,
                   srv_accepts>>
    /\ UNCHANGED srvOthers

\* the steps the scheduler owes the worker thread, and the thread inside
\* manaknight_stop_http_server
WorkerSteps ==
    \/ http_server_worker_while
    \/ http_server_worker_accept
    \/ http_server_worker_accepted
    \/ http_server_worker_respond

StopSteps ==
    \/ manaknight_stop_http_server_close
    \/ manaknight_stop_http_server_reset
    \/ manaknight_stop_http_server_join

NextServer ==
    \/ manaknight_start_http_server
    \/ client_connects
    \/ http_server_worker_while
    \/ http_server_worker_accept
    \/ http_server_worker_accepted
    \/ http_server_worker_woken
    \/ http_server_worker_respond
    \/ manaknight_stop_http_server
    \/ manaknight_stop_http_server_close
    \/ manaknight_stop_http_server_reset
    \/ manaknight_stop_http_server_join

(***************************************************************************)
(*                       THE RUNTIME LIBRARY                                *)
(*                                                                          *)
(* The library runs on a JavaScript engine.  Its Int values are Numbers,    *)
(* IEEE 754 doubles, and the arithmetic of math.js goes through BigInt.     *)
(* Both are wider than the integers of the model checker, so an integer is  *)
(* kept as a sign and the bits of its magnitude, lowest bit first, and a    *)
(* Number as a sign, an odd mantissa of at most 53 bits and a power of two. *)
(***************************************************************************)
\* bits in the mantissa of a double
MantissaBits == 53

\* the magnitude without the zeros above its highest set bit
Normalize(mag) ==
    LET set == {i \in 1..Len(mag) : mag[i] = 1}
    IN  IF set = {} THEN <<>>
        ELSE SubSeq(mag, 1, CHOOSE i \in set : \A j \in set : j <= i)

\* the bits of a natural number of the model, lowest first
RECURSIVE Bits(_)
Bits(n) == IF n = 0 THEN <<>> ELSE <<n % 2>> \o Bits(n \div 2)

\* n zeros, n ones
Zeros(n) == [i \in 1..n |-> 0]
Ones(n) == [i \in 1..n |-> 1]

\* bit i of a magnitude, 0 above its length
Bit(mag, i) == IF i <= Len(mag) THEN mag[i] ELSE 0

\* x + y on magnitudes.  The carry into bit i comes from a lower bit set in
\* both, through bits set in exactly one.
CarryInto(x, y, i) ==
    \E j \in 1..(i - 1) :
        /\ Bit(x, j) = 1 /\ Bit(y, j) = 1
        /\ \A k \in (j + 1)..(i - 1) : Bit(x, k) + Bit(y, k) = 1

MagAdd(x, y) ==
    LET n == (IF Len(x) < Len(y) THEN Len(y) ELSE Len(x)) + 1
    IN  Normalize([i \in 1..n |->
            (Bit(x, i) + Bit(y, i)
                + (IF CarryInto(x, y, i) THEN 1 ELSE 0)) % 2])

\* x - y on magnitudes, for x >= y.  The borrow from bit i comes from a
\* lower bit set in y only, through bits that are equal.
BorrowFrom(x, y, i) ==
    \E j \in 1..(i - 1) :
        /\ Bit(x, j) = 0 /\ Bit(y, j) = 1
        /\ \A k \in (j + 1)..(i - 1) : Bit(x, k) = Bit(y, k)

MagSub(x, y) ==
    Normalize([i \in 1..Len(x) |->
        (Bit(x, i) + Bit(y, i)
            + (IF BorrowFrom(x, y, i) THEN 1 ELSE 0)) % 2])

\* whether x < y on normalized magnitudes: the longer is the larger, and of
\* two of one length the one with the 0 at the highest bit where they differ
MagLess(x, y) ==
    IF Len(x) # Len(y) THEN Len(x) < Len(y)
    ELSE \E i \in 1..Len(x) :
            /\ x[i] < y[i]
            /\ \A k \in (i + 1)..Len(x) : x[k] = y[k]

\* x * y on magnitudes, by shift and add: the sum of the copies of y that
\* the bits lo .. hi of x call for, the two halves of the range added up
RECURSIVE MagMulRange(_, _, _, _)
MagMulRange(x, y, lo, hi) ==
    IF lo = hi THEN (IF x[lo] = 1 THEN Zeros(lo - 1) \o y ELSE <<>>)
    ELSE After(MagMulRange(x, y, lo, (lo + hi) \div 2),
          LAMBDA low :
            After(MagMulRange(x, y, (lo + hi) \div 2 + 1, hi),
                  LAMBDA high : MagAdd(low, high)))

MagMul(x, y) ==
    IF x = <<>> \/ y = <<>> THEN <<>> ELSE MagMulRange(x, y, 1, Len(x))

\* a BigInt: sign and magnitude; zero is not negative
BigIntOf(neg, mag) == [neg |-> neg /\ mag # <<>>, mag |-> mag]

BigIntNeg(x) == BigIntOf(~x.neg, x.mag)

\* the BigInt operators +, -, * and <
BigIntAdd(x, y) ==
    IF x.neg = y.neg THEN BigIntOf(x.neg, MagAdd(x.mag, y.mag))
    ELSE IF MagLess(x.mag, y.mag) THEN BigIntOf(y.neg, MagSub(y.mag, x.mag))
    ELSE BigIntOf(x.neg, MagSub(x.mag, y.mag))

BigIntSub(x, y) == BigIntAdd(x, BigIntNeg(y))

BigIntMul(x, y) == BigIntOf(x.neg # y.neg, MagMul(x.mag, y.mag))

BigIntLess(x, y) ==
    IF x.neg # y.neg THEN x.neg
    ELSE IF x.neg THEN MagLess(y.mag, x.mag)
    ELSE MagLess(x.mag, y.mag)

\* Constants for Int64 range checking
INT64_MIN == BigIntOf(TRUE, Zeros(63) \o <<1>>)
INT64_MAX == BigIntOf(FALSE, Ones(63))

\* a Number that is an integer: mant * 2^exp, mant odd or empty (zero)
NumberOf(neg, mant, exp) ==
    [neg |-> neg /\ mant # <<>>, mant |-> mant,
     exp |-> IF mant = <<>> THEN 0 ELSE exp]

\* the zeros below the lowest set bit of a magnitude that is not zero
TrailingZeros(mag) ==
    (CHOOSE i \in 1..Len(mag) :
        mag[i] = 1 /\ \A j \in 1..(i - 1) : mag[j] = 0) - 1

\* BigInt(n) of an integer Number: the same integer, exactly
toBigInt(n) == BigIntOf(n.neg, IF n.mant = <<>> THEN <<>>
                               ELSE Zeros(n.exp) \o n.mant)

\* the magnitude rounded to MantissaBits significant bits, to the nearest,
\* a tie to the even mantissa
RoundToDouble(mag) ==
    IF Len(mag) <= MantissaBits THEN mag
    ELSE LET drop == Len(mag) - MantissaBits
             kept == SubSeq(mag, drop + 1, Len(mag))
             guard == mag[drop]
             sticky == \E i \in 1..(drop - 1) : mag[i] = 1
             up == IF guard = 1 /\ (sticky \/ kept[1] = 1) THEN 1 ELSE 0
         IN  Zeros(drop) \o MagAdd(kept, Bits(up))

\* Number(bi): the double nearest to the integer
NumberFromMag(neg, mag) ==
    IF mag = <<>> THEN NumberOf(FALSE, <<>>, 0)
    ELSE NumberOf(neg, SubSeq(mag, TrailingZeros(mag) + 1, Len(mag)),
                  TrailingZeros(mag))

Number(bi) == NumberFromMag(bi.neg, RoundToDouble(bi.mag))

\* what a call returns, or the Error it throws
Return(value) == [tag |-> "return", value |-> value]
Throw(message) == [tag |-> "throw", message |-> message]

\* fromBigInt: the range check, then the conversion back to a Number
fromBigInt(bi) ==
    IF BigIntLess(bi, INT64_MIN) \/ BigIntLess(INT64_MAX, bi)
    THEN Throw("Integer overflow")
    ELSE Return(Number(bi))

\* Checked addition, subtraction, multiplication
add(a, b) == fromBigInt(BigIntAdd(toBigInt(a), toBigInt(b)))
sub(a, b) == fromBigInt(BigIntSub(toBigInt(a), toBigInt(b)))
mul(a, b) == fromBigInt(BigIntMul(toBigInt(a), toBigInt(b)))

\* the Number of a small integer of the model
Num(n) == IF n < 0 THEN Number(BigIntOf(TRUE, Bits(0 - n)))
          ELSE Number(BigIntOf(FALSE, Bits(n)))

\* 2^e as a Number
PowerOfTwo(e) == NumberOf(FALSE, <<1>>, e)

\* Int operands: small ones, the ends of the range in which every integer
\* is a double (2^53 - 1 and 2^53), and the ends of the Int64 range that a
\* double can hold (-2^63 and 2^63 - 1024)
IntOperands ==
    {Num(0), Num(1), Num(-1), Num(3), PowerOfTwo(31),
     NumberOf(FALSE, Ones(MantissaBits), 0), PowerOfTwo(MantissaBits),
     PowerOfTwo(62), NumberOf(TRUE, <<1>>, 63),
     NumberOf(FALSE, Ones(MantissaBits), 63 - MantissaBits)}

\* typeof: a Number is its sign, mantissa and exponent, a string is boxed
\* with its characters, everything else is an object with a tag
typeof(value) ==
    IF "mant" \in DOMAIN value THEN "number"
    ELSE IF "chars" \in DOMAIN value THEN "string"
    ELSE "object"

String(chars) == [chars |-> chars]

\* the values of the algebraic types of the prelude
None == [tag |-> "none"]
Some(value) == [tag |-> "some", value |-> value]
Nil == [tag |-> "nil"]
Cons(head, tail) == [tag |-> "cons", head |-> head, tail |-> tail]

\* Structural equality: === on two primitives, else the tags and then the
\* fields the tag has
RECURSIVE equals(_, _)
equals(a, b) ==
    IF typeof(a) # "object" \/ typeof(b) # "object"
    THEN typeof(a) = typeof(b) /\ a = b
    ELSE IF a.tag # b.tag THEN FALSE
    ELSE CASE a.tag = "some" -> equals(a.value, b.value)
           [] a.tag = "none" -> TRUE
           [] a.tag = "cons" -> equals(a.head, b.head) /\ equals(a.tail, b.tail)
           [] a.tag = "nil" -> TRUE

\* ToInt32 of an integer: its low 32 bits read as a two's complement number
Int32(i) ==
    LET low == Normalize(SubSeq(i.mag, 1, IF Len(i.mag) < 32 THEN Len(i.mag)
                                          ELSE 32))
        unsigned == IF i.neg /\ low # <<>>
                    THEN MagSub(Zeros(32) \o <<1>>, low) ELSE low
    IN  IF Len(unsigned) = 32
        THEN BigIntOf(TRUE, MagSub(Zeros(32) \o <<1>>, unsigned))
        ELSE BigIntOf(FALSE, unsigned)

\* hash << 5
ShiftLeft5(i) == Int32(BigIntOf(i.neg, IF i.mag = <<>> THEN <<>>
                                       ELSE Zeros(5) \o i.mag))

\* str.charCodeAt(i) for the characters of the keys
charCodeAt(c) ==
    CASE c = "A" -> 65 [] c = "a" -> 97 [] c = "b" -> 98

\* an integer of the model as sign and magnitude
Integer(n) == IF n < 0 THEN BigIntOf(TRUE, Bits(0 - n))
              ELSE BigIntOf(FALSE, Bits(n))

\* DJB2 string hash: the loop from character i on, with the hash so far.
\* The sums stay below 2^53, where the addition of Numbers is exact.
RECURSIVE djb2HashFrom(_, _, _)
djb2HashFrom(str, i, h) ==
    IF i > Len(str) THEN h
    ELSE djb2HashFrom(str, i + 1,
            BigIntAdd(BigIntAdd(ShiftLeft5(h), h), Integer(charCodeAt(str[i]))))

djb2Hash(str) == djb2HashFrom(str, 1, Integer(5381))

\* Hash function for structural hashing, on numbers, strings and the
\* algebraic types of the prelude
RECURSIVE hash(_)
hash(value) ==
    IF typeof(value) = "number" THEN Int32(toBigInt(value))
    ELSE IF typeof(value) = "string" THEN djb2Hash(Chars(value.chars))
    ELSE CASE value.tag = "some" -> BigIntAdd(Integer(31), hash(value.value))
           [] value.tag = "none" -> Integer(37)
           [] value.tag = "cons" ->
                BigIntAdd(BigIntAdd(Integer(47), hash(value.head)),
                          hash(value.tail))
           [] value.tag = "nil" -> Integer(53)

\* arrayToList: the loop runs from the last index down, so the list has the
\* elements in the order of the array
RECURSIVE arrayToListFrom(_, _, _)
arrayToListFrom(arr, i, result) ==
    IF i < 1 THEN result
    ELSE arrayToListFrom(arr, i - 1, Cons(arr[i], result))

arrayToList(arr) == arrayToListFrom(arr, Len(arr), Nil)

\* Array.prototype.reverse
reverse(arr) == [i \in 1..Len(arr) |-> arr[Len(arr) + 1 - i]]

\* the functions handed to mapList
Functions == {"identity", "increment", "some"}

Apply(f, value) ==
    CASE f = "identity" -> value
      [] f = "increment" -> add(value, Num(1)).value
      [] f = "some" -> Some(value)

\* the while loop of mapList: result.push(f(current.head))
RECURSIVE mapListLoop(_, _, _)
mapListLoop(current, f, result) ==
    IF current.tag = "cons"
    THEN mapListLoop(current.tail, f, Append(result, Apply(f, current.head)))
    ELSE result

\* mapList of core.js
mapList(list, f) == arrayToList(reverse(mapListLoop(list, f, <<>>)))

\* mapList as list.mk defines it
RECURSIVE mapList_mk(_, _)
mapList_mk(list, f) ==
    IF list.tag = "cons"
    THEN Cons(Apply(f, list.head), mapList_mk(list.tail, f))
    ELSE Nil

\* emptyMap: an object without properties.  A property is named by the
\* decimal digits of the hash, one name for each integer.
emptyMap == <<>>

getMap(map, key) ==
    IF hash(key) \in DOMAIN map THEN Some(map[hash(key)]) ELSE None

\* setMap: Object.assign copies the properties into a new object, which
\* gets the property; the object passed in is written nowhere
setMap(map, key, value) ==
    [newMap |-> [keyHash \in DOMAIN map \cup {hash(key)} |->
                    IF keyHash = hash(key) THEN value ELSE map[keyHash]],
     map |-> map]

(***************************************************************************)
(*               THE RUNTIME LIBRARY AS A STATE MACHINE                     *)
(***************************************************************************)
\* the lists of Int of a length, as cons cells
RECURSIVE ListsOfLength(_)
ListsOfLength(n) ==
    IF n = 0 THEN {Nil}
    ELSE {Cons(head, tail) : head \in {Num(0), Num(1), Num(2)},
                             tail \in ListsOfLength(n - 1)}

Lists == UNION {ListsOfLength(n) : n \in 0..MaxListLen}

\* keys of a Map<Option<Int>, V>, a Map<String, V> and a Map<Int, V>
OptionKeys == {None, Some(Num(6)), Some(Num(1))}
StringKeys == {String("ab"), String("bA"), String("a")}
IntKeys == {Num(0), Num(-1), PowerOfTwo(32)}

KeySets == {OptionKeys, StringKeys, IntKeys}

\* the maps over a set of keys that the library builds with at most one
\* setMap from emptyMap
MapsOver(keys) ==
    {emptyMap} \cup {setMap(emptyMap, key, Num(0)).newMap : key \in keys}

MathInputs == {[fn |-> "math", a |-> a, b |-> b] :
                    a \in IntOperands, b \in IntOperands}

ListInputs == {[fn |-> "list", list |-> list, f |-> f] :
                    list \in Lists, f \in Functions}

MapInputs ==
    UNION {{[fn |-> "map", map |-> map, key |-> key, value |-> value,
             key2 |-> key2] :
                map \in MapsOver(keys), key \in keys, value \in {Num(3)},
                key2 \in keys} : keys \in KeySets}

RuntimeInit ==
    /\ \/ rt_input \in MathInputs
       \/ rt_input \in ListInputs
       \/ rt_input \in MapInputs
    /\ rt_output = <<>>

RuntimeIdle ==
    /\ rt_input = <<>>
    /\ rt_output = <<>>

Call(fn, result) ==
    /\ rt_output' = Append(rt_output, [fn |-> fn, result |-> result])
    /\ UNCHANGED rt_input
    /\ UNCHANGED rtOthers

call_add ==
    /\ rt_input.fn = "math" /\ rt_output = <<>>
    /\ Call("add", add(rt_input.a, rt_input.b))

call_sub ==
    /\ rt_input.fn = "math" /\ rt_output = <<>>
    /\ Call("sub", sub(rt_input.a, rt_input.b))

call_mul ==
    /\ rt_input.fn = "math" /\ rt_output = <<>>
    /\ Call("mul", mul(rt_input.a, rt_input.b))

call_mapList ==
    /\ rt_input.fn = "list" /\ rt_output = <<>>
    /\ Call("mapList", mapList(rt_input.list, rt_input.f))

\* setMap(m, k, v); the result holds the new map and m as the call left it
call_setMap ==
    /\ rt_input.fn = "map" /\ rt_output = <<>>
    /\ Call("setMap", setMap(rt_input.map, rt_input.key, rt_input.value))

\* getMap(setMap(m, k, v), k2)
call_getMap ==
    /\ rt_input.fn = "map" /\ Len(rt_output) = 1
    /\ Call("getMap", getMap(rt_output[1].result.newMap, rt_input.key2))

NextRuntime ==
    \/ call_add
    \/ call_sub
    \/ call_mul
    \/ call_mapList
    \/ call_setMap
    \/ call_getMap

(***************************************************************************)
(*                             SPECIFICATIONS                               *)
(***************************************************************************)
InitSymbols ==
    /\ SymbolsInit
    /\ ModulesIdle
    /\ LexIdle
    /\ NoDiagnostics
    /\ ParserIdle
    /\ DriverIdle
    /\ CheckerIdle
    /\ FormatIdle
    /\ ServerIdle
    /\ RuntimeIdle

SpecSymbols == InitSymbols /\ [][NextSymbols]_vars

InitModules ==
    /\ ModulesInit
    /\ SymbolsIdle
    /\ LexIdle
    /\ NoDiagnostics
    /\ ParserIdle
    /\ DriverIdle
    /\ CheckerIdle
    /\ FormatIdle
    /\ ServerIdle
    /\ RuntimeIdle

SpecModules == InitModules /\ [][NextModules]_vars

InitLexer ==
    /\ LexInit
    /\ NoDiagnostics
    /\ SymbolsIdle
    /\ ModulesIdle
    /\ ParserIdle
    /\ DriverIdle
    /\ CheckerIdle
    /\ FormatIdle
    /\ ServerIdle
    /\ RuntimeIdle

SpecLexer == InitLexer /\ [][NextLexer]_vars

InitParser ==
    /\ ParserInit
    /\ NoDiagnostics
    /\ SymbolsIdle
    /\ ModulesIdle
    /\ LexIdle
    /\ DriverIdle
    /\ CheckerIdle
    /\ FormatIdle
    /\ ServerIdle
    /\ RuntimeIdle

SpecParser == InitParser /\ [][NextParser]_vars

InitDriver ==
    /\ DriverInit
    /\ DriverLexInit
    /\ NoDiagnostics
    /\ SymbolsIdle
    /\ ModulesIdle
    /\ ParserIdle
    /\ CheckerIdle
    /\ FormatIdle
    /\ ServerIdle
    /\ RuntimeIdle

SpecDriver == InitDriver /\ [][NextDriver]_vars

InitChecker ==
    /\ CheckerStateInit
    /\ NoDiagnostics
    /\ SymbolsIdle
    /\ ModulesIdle
    /\ LexIdle
    /\ ParserIdle
    /\ DriverIdle
    /\ FormatIdle
    /\ ServerIdle
    /\ RuntimeIdle

SpecChecker == InitChecker /\ [][NextChecker]_vars

InitFormat ==
    /\ FormatInit
    /\ NoDiagnostics
    /\ SymbolsIdle
    /\ ModulesIdle
    /\ LexIdle
    /\ ParserIdle
    /\ DriverIdle
    /\ CheckerIdle
    /\ ServerIdle
    /\ RuntimeIdle

SpecFormat == InitFormat /\ [][NextFormat]_vars

InitServer ==
    /\ ServerInit
    /\ NoDiagnostics
    /\ SymbolsIdle
    /\ ModulesIdle
    /\ LexIdle
    /\ ParserIdle
    /\ DriverIdle
    /\ CheckerIdle
    /\ FormatIdle
    /\ RuntimeIdle

SpecServer == InitServer /\ [][NextServer]_vars

InitRuntime ==
    /\ RuntimeInit
    /\ NoDiagnostics
    /\ SymbolsIdle
    /\ ModulesIdle
    /\ LexIdle
    /\ ParserIdle
    /\ DriverIdle
    /\ CheckerIdle
    /\ FormatIdle
    /\ ServerIdle

SpecRuntime == InitRuntime /\ [][NextRuntime]_vars

\* the scheduler runs each thread that can take a step; no client owes the
\* server a connection and no system owes a blocked accept a wake-up
SpecServerFair ==
    InitServer /\ [][NextServer]_vars /\ WF_vars(WorkerSteps)
               /\ WF_vars(StopSteps)

(***************************************************************************)
(*                               PROPERTIES                                 *)
(***************************************************************************)

\* C1 (shadow prohibition): after any sequence of enter_scope, exit_scope
\* and declare_symbol calls, no name occurs twice along the chain from the
\* current scope up to the global scope (neither twice in one scope nor in
\* two scopes of the chain).
C1_NoNameTwiceAlongChain ==
    \A i \in 1..Len(scopes), j \in 1..Len(scopes) :
        \A k \in 1..Len(scopes[i]), l \in 1..Len(scopes[j]) :
            scopes[i][k] = scopes[j][l] => (i = j /\ k = l)

\* the modules reachable from the set S along the edges deps
RECURSIVE ReachFrom(_, _)
ReachFrom(deps, S) ==
    LET T == S \cup {e[2] : e \in {d \in deps : d[1] \in S}}
    IN  IF T = S THEN S ELSE ReachFrom(deps, T)

HasCycle(deps) == \E e \in deps : e[1] \in ReachFrom(deps, {e[2]})

\* C2 (module DAG): the dependency edges admitted by add_dependency never
\* contain a cycle.
C2_AdmittedEdgesAcyclic == ~HasCycle(dependencies)


\* the position of the lexer that is scanning
LexPosition == IF lex_impl = "A" THEN lexer.current ELSE lexer.position

ErrorTypes == {"TOKEN_ERROR", "TOK_INVALID"}

\* C8 (lexer progress): every call that returns a token other than
\* end-of-input, an error token included, leaves the lexer at least one
\* character further than it entered; the next call starts where the last
\* one stopped, so an error token does not halt or rewind the stream; at
\* most one such call is made per source character, and end-of-input is
\* returned only once the whole buffer has been consumed.
C8_LexerProgress ==
    /\ \A i \in 1..Len(lex_tokens) :
          LET e == lex_tokens[i]
          IN  /\ e.tok.type \notin EofTypes => e.after > e.before
              /\ e.tok.type \in EofTypes => e.after >= Len(lex_source)
              /\ i > 1 => e.before = lex_tokens[i - 1].after
    /\ lex_tokens # <<>> => LexPosition = lex_tokens[Len(lex_tokens)].after
    /\ Cardinality({i \in 1..Len(lex_tokens) :
                       lex_tokens[i].tok.type \notin EofTypes})
          <= Len(lex_source)

\* an error token was returned and the lexer went on to return a further
\* token from the input that follows it

C8_Witness ==
    \E i \in 1..Len(lex_tokens) :
        /\ lex_tokens[i].tok.type \in ErrorTypes
        /\ i + 1 < Len(lex_tokens)
        /\ lex_tokens[i + 1].tok.type \notin EofTypes \cup ErrorTypes
        /\ lex_tokens[Len(lex_tokens)].tok.type \in EofTypes

\* the six two-character operators and the token each of them is
TwoCharOperators ==
    {<<"=", "=">>, <<"!", "=">>, <<"<", "=">>, <<">", "=">>,
     <<"-", ">">>, <<"|", ">">>}

TwoCharTypes(op) ==
    CASE op = <<"=", "=">> -> {"TOKEN_DOUBLE_EQUALS", "TOK_DOUBLE_EQUALS"}
      [] op = <<"!", "=">> -> {"TOKEN_NOT_EQUALS", "TOK_NOT_EQUALS"}
      [] op = <<"<", "=">> -> {"TOKEN_LESS_EQUALS", "TOK_LESS_EQUALS"}
      [] op = <<">", "=">> -> {"TOKEN_GREATER_EQUALS", "TOK_GREATER_EQUALS"}
      [] op = <<"-", ">">> -> {"TOKEN_ARROW", "TOK_ARROW"}
      [] op = <<"|", ">">> -> {"TOKEN_PIPE_RIGHT", "TOK_PIPE_RIGHT"}

\* C9 (two-character operators): a token that starts at the first character
\* of ==, !=, <=, >=, -> or |>, with the second character next to it in the
\* source, is the single token of that operator and covers both characters.
C9_TwoCharOperatorsSingleToken ==
    \A i \in 1..Len(lex_tokens) :
        LET e == lex_tokens[i]
        IN  \A op \in TwoCharOperators :
                (/\ e.start + 2 <= Len(lex_source)
                 /\ lex_source[e.start + 1] = op[1]
                 /\ lex_source[e.start + 2] = op[2])
                => (e.tok.type \in TwoCharTypes(op) /\ e.after = e.start + 2)

\* the string literal opened at 0-based position q (a quote) is not closed
\* by a quote before the end of its line or the end of the buffer
Unterminated(src, q) ==
    ~ \E j \in (q + 2)..Len(src) :
          /\ src[j] = "\""
          /\ \A k \in (q + 2)..(j - 1) : src[k] # "\n"

\* C10 (unterminated string): a call that starts at the opening quote of a
\* literal that is not closed before the end of its line or of the input
\* returns an error token, not a string-literal token, and leaves exactly
\* one E1001 diagnostic recorded.
C10_UnterminatedStringOneDiagnostic ==
    \A i \in 1..Len(lex_tokens) :
        LET e == lex_tokens[i]
        IN  (/\ e.start < Len(lex_source)
             /\ lex_source[e.start + 1] = "\""
             /\ Unterminated(lex_source, e.start))
            => /\ e.tok.type \in ErrorTypes
               /\ e.tok.type \notin {"TOKEN_STRING_LITERAL", "TOK_STRING_LITERAL"}
               /\ Cardinality({d \in 1..Len(diagnostics) :
                                  diagnostics[d] = 1001}) = 1


\* C7 (parser totality): every iteration of every parsing loop of parser A
\* (top level, module body, match cases) leaves the current token at least
\* one token further than it found it, so no loop repeats without end.
C7_EveryLoopIterationConsumes ==
    /\ parser_status # "hung"
    /\ \A i \in 1..Len(parser_iters) :
          parser_iters[i].after > parser_iters[i].before


\* the tokens lexer B has handed to the parser, in order
TokensRead == [i \in 1..Len(lex_tokens) |-> lex_tokens[i].tok]

\* where function declarations begin in a token list
FnHeads(toks) ==
    {i \in 1..(Len(toks) - 1) :
        toks[i].type = "TOK_FN" /\ toks[i + 1].type = "TOK_IDENTIFIER"}

\* the end of the declaration that begins at i: the next one or the end
NextFn(toks, i) ==
    LET later == {j \in FnHeads(toks) : j > i}
    IN  IF later = {} THEN Len(toks) + 1
        ELSE CHOOSE j \in later : \A k \in later : j <= k

\* the declaration has a uses clause between its head and its body
DeclaresEffects(toks, i) ==
    \E k \in (i + 1)..(NextFn(toks, i) - 1) :
        /\ toks[k].text = "uses"
        /\ \A j \in i..k : toks[j].type # "TOK_LBRACE"

EffectfulNames(toks) ==
    {toks[i + 1].text : i \in {h \in FnHeads(toks) : DeclaresEffects(toks, h)}}

\* a function declared without effects calls, in its body, a function
\* declared with one
EffectLeak(toks) ==
    \E i \in FnHeads(toks) :
        /\ ~DeclaresEffects(toks, i)
        /\ \E k \in (i + 2)..(NextFn(toks, i) - 2) :
              /\ toks[k].type = "TOK_IDENTIFIER"
              /\ toks[k].text \in EffectfulNames(toks)
              /\ toks[k + 1].type = "TOK_LPAREN"

\* C3 (effect soundness): a program mkc accepts (exit code 0) has no
\* function without declared effects whose body calls a function declared
\* with effects; when mkc has ended on a program that has one, E3002 is
\* among the diagnostics.
C3_AcceptedProgramsHaveNoEffectLeak ==
    mk_phase = "exit" /\ mk_mode # "-f" /\ mk_readable /\ error_count = 0
    => /\ exit_code = 0 => ~EffectLeak(TokensRead)
       /\ EffectLeak(TokensRead)
             => \E d \in 1..Len(diagnostics) : diagnostics[d] = 3002

\* the input gave cause for a diagnostic: one was recorded, the lexer met a
\* character it has no token for or a string literal that is not closed,
\* or the parser gave up a declaration (the production returned NULL)
CauseForDiagnostic ==
    \/ diagnostics # <<>>
    \/ error_count > 0
    \/ null_productions > 0
    \/ \E i \in 1..Len(lex_tokens) :
          \/ lex_tokens[i].tok.type = "TOK_INVALID"
          \/ /\ lex_tokens[i].start < Len(lex_source)
             /\ lex_source[lex_tokens[i].start + 1] = "\""
             /\ Unterminated(lex_source, lex_tokens[i].start)

\* C6 (exit code): mkc exits with code 0 only when the input gave no cause
\* for a diagnostic, lexical or syntactic, and never with code 0 once a
\* diagnostic is recorded, whatever the mode.
C6_ExitZeroOnlyWithoutDiagnostic ==
    exit_code = 0 => ~CauseForDiagnostic

\* the case lists of the matches of a statement, as statement or expression,
\* the branches of an if included
MatchesDirectlyIn(stmt) ==
    IF stmt.kind = "NODE_MATCH_STMT" THEN {stmt.cases}
    ELSE IF stmt.kind = "NODE_EXPR_STMT" /\ stmt.expr.kind = "NODE_MATCH_EXPR"
    THEN {stmt.expr.cases}
    ELSE IF stmt.kind = "NODE_LET_STMT" /\ stmt.expr.kind = "NODE_MATCH_EXPR"
    THEN {stmt.expr.cases}
    ELSE {}

MatchesIn(stmt) ==
    IF stmt.kind = "NODE_IF_STMT"
    THEN MatchesDirectlyIn(stmt.then_branch)
         \cup MatchesDirectlyIn(stmt.else_branch)
    ELSE MatchesDirectlyIn(stmt)

\* the constructors of the tagged union Option
OptionConstructors == {"Some", "None"}

\* the cases cover every constructor of Option, or one of them is a wildcard
Exhaustive(cases) ==
    \/ \E i \in 1..Len(cases) : cases[i].pattern.kind = "NODE_WILDCARD_PATTERN"
    \/ \A c \in OptionConstructors :
          \E i \in 1..Len(cases) :
             /\ cases[i].pattern.kind = "NODE_CONSTRUCTOR_PATTERN"
             /\ cases[i].pattern.constructor = c

\* the functions of the checked program whose matches are on a parameter x
\* of type Option
FunctionsOnOption ==
    {tc_program[i] : i \in {j \in 1..Len(tc_program) :
        /\ tc_program[j].kind = "NODE_FUNCTION_DECL"
        /\ tc_program[j].params = <<Param("x", NamedType("Option"))>>}}

CheckFinished == tc_status \in {"passed", "rejected"}

Reported(code) == \E d \in 1..Len(diagnostics) : diagnostics[d] = code

\* C4 (exhaustiveness): every match of a program that passes checking covers
\* every constructor of the scrutinee's tagged union or has a wildcard arm,
\* and a program with a match that leaves a constructor uncovered and has no
\* wildcard is rejected with E4001.
C4_PassedMatchesAreExhaustive ==
    \A fn \in FunctionsOnOption : \A cases \in MatchesIn(fn.body) :
       /\ tc_status = "passed" => Exhaustive(cases)
       /\ CheckFinished /\ ~Exhaustive(cases)
             => tc_status = "rejected" /\ Reported(4001)

\* the statement produces a value on every control path
ProducesValue(stmt) ==
    LET Simple(st) == IF st.kind = "NODE_EXPR_STMT" THEN TRUE
                      ELSE IF st.kind = "NODE_MATCH_STMT"
                      THEN Len(st.cases) > 0
                      ELSE FALSE
    IN IF stmt.kind = "NODE_IF_STMT"
       THEN Simple(stmt.then_branch) /\ Simple(stmt.else_branch)
       ELSE Simple(stmt)

FunctionsChecked ==
    {tc_program[i] : i \in {j \in 1..Len(tc_program) :
        tc_program[j].kind = "NODE_FUNCTION_DECL"}}

\* C5 (totality): no accepted function has a control path that yields no
\* value, and a function whose body does not produce a value on every path
\* (a let-only body, an if with a missing or non-total arm) is rejected with
\* E2005.
C5_AcceptedFunctionsAreTotal ==
    \A fn \in FunctionsChecked :
       /\ tc_status = "passed" => ProducesValue(fn.body)
       /\ CheckFinished /\ ~ProducesValue(fn.body)
             => tc_status = "rejected" /\ Reported(2005)

\* the line feeds among the first off characters of a source
LineFeedsBefore(src, off) == {k \in 1..off : src[k] = "\n"}

\* the 1-based line and column of the character at offset off (0-based)
LineOf(src, off) == 1 + Cardinality(LineFeedsBefore(src, off))

ColumnOf(src, off) ==
    LET feeds == LineFeedsBefore(src, off)
        last == IF feeds = {} THEN 0
                ELSE CHOOSE k \in feeds : \A j \in feeds : j <= k
    IN  off - last + 1

\* C11 (token positions): every token produced from source characters
\* carries the 1-based line and column of its first character, the line
\* growing by one and the column starting again at every line feed, whatever
\* precedes the token.
C11_TokensCarryLineAndColumn ==
    \A i \in 1..Len(lex_tokens) :
       lex_tokens[i].tok.type \notin EofTypes
          => /\ lex_tokens[i].tok.line = LineOf(lex_source, lex_tokens[i].start)
             /\ lex_tokens[i].tok.column
                   = ColumnOf(lex_source, lex_tokens[i].start)

\* the constructs the emitted JavaScript must not contain
ForbiddenConstructs ==
    {"eval", "with", "this", "class", "throw", "try", "null", "undefined",
     "var", "let ", "for", "while"}

\* compile_manaknight has returned with generated JavaScript
Emitted == mk_phase \in {"report", "exit"} /\ js_code # <<>>

\* C12 (no forbidden construct in output): for every input program the
\* emitted JavaScript contains none of eval, with, this, class, throw, try,
\* null, undefined, var, 'let ', for, while; in particular none of the
\* strings the emitter writes to its buffer is one of them.
C12_NoForbiddenConstructEmitted ==
    Emitted => \A k \in 1..Len(js_code) : js_code[k] \notin ForbiddenConstructs

\* the declarations of the source in source order: the fn and api tokens
\* the lexer returned
DeclaredOrder ==
    LET heads == SelectSeq(lex_tokens,
                     LAMBDA e : e.tok.type \in {"TOK_FN", "TOK_API"})
    IN  [i \in 1..Len(heads) |->
            IF heads[i].tok.type = "TOK_FN" THEN "fn" ELSE "api"]

\* every fn and api token of the source began a declaration that the parser
\* added to the module
EveryDeclarationParsed ==
    /\ Len(SelectSeq(lex_tokens, LAMBDA e : e.tok.type = "TOK_FN"))
          = Len(program_module.functions)
    /\ Len(SelectSeq(lex_tokens, LAMBDA e : e.tok.type = "TOK_API"))
          = Len(program_module.api_routes)

\* the functions and api routes of the emitted JavaScript in the order of
\* the text: a route is its comment line and its handler, five strings on
RECURSIVE EmittedFrom(_)
EmittedFrom(k) ==
    IF k > Len(js_code) THEN <<>>
    ELSE IF js_code[k] = "// API route: " THEN <<"api">> \o EmittedFrom(k + 6)
    ELSE IF js_code[k] = "function " THEN <<"fn">> \o EmittedFrom(k + 1)
    ELSE EmittedFrom(k + 1)

EmittedOrder == EmittedFrom(1)

\* C13 (source order): in the emitted JavaScript the lowered functions and
\* api routes appear in source order: of any two declarations of the input
\* the one declared first is emitted first.
C13_EmittedInSourceOrder ==
    Emitted /\ EveryDeclarationParsed => EmittedOrder = DeclaredOrder

\* the type of the token the lexer returned i-th, "" past the last one
TypeAt(i) == IF i \in 1..Len(lex_tokens) THEN lex_tokens[i].tok.type ELSE ""

\* an api route is declared at token i: api, a method, a path, then a
\* parameter list that is empty or holds one parameter, and '->'
RouteDeclaredAt(i) ==
    /\ TypeAt(i) = "TOK_API"
    /\ TypeAt(i + 1) \in {"TOK_IDENTIFIER", "TOK_GET"}
    /\ TypeAt(i + 2) = "TOK_STRING_LITERAL"
    /\ TypeAt(i + 3) = "TOK_LPAREN"
    /\ \/ TypeAt(i + 4) = "TOK_RPAREN" /\ TypeAt(i + 5) = "TOK_ARROW"
       \/ /\ TypeAt(i + 4) = "TOK_IDENTIFIER"
          /\ TypeAt(i + 5) = "TOK_COLON"
          /\ TypeAt(i + 6) = "TOK_IDENTIFIER"
          /\ TypeAt(i + 7) = "TOK_RPAREN"
          /\ TypeAt(i + 8) = "TOK_ARROW"

\* method and path of the routes declared in the source, in source order
RECURSIVE DeclaredRoutesFrom(_)
DeclaredRoutesFrom(i) ==
    IF i > Len(lex_tokens) THEN <<>>
    ELSE IF RouteDeclaredAt(i)
    THEN <<[method |-> lex_tokens[i + 1].tok.text,
            path |-> lex_tokens[i + 2].tok.text]>>
         \o DeclaredRoutesFrom(i + 1)
    ELSE DeclaredRoutesFrom(i + 1)

\* method and path of the routes of the emitted JavaScript
RECURSIVE EmittedRoutesFrom(_)
EmittedRoutesFrom(k) ==
    IF k + 3 > Len(js_code) THEN <<>>
    ELSE IF js_code[k] = "// API route: "
    THEN <<[method |-> js_code[k + 1], path |-> js_code[k + 3]]>>
         \o EmittedRoutesFrom(k + 4)
    ELSE EmittedRoutesFrom(k + 1)

\* C14 (api routes lowered): every api route declared in the source, with
\* or without parameters, is lowered to exactly one registration that
\* carries its method and its path; no declared route is missing from the
\* emitted output.
C14_EveryRouteEmittedOnce ==
    Emitted => EmittedRoutesFrom(1) = DeclaredRoutesFrom(1)

\* the HTTP methods as the sources of the repository write them
LowerCaseMethods ==
    {"get", "post", "put", "delete", "patch", "head", "options"}

\* the method is one of GET POST PUT DELETE PATCH HEAD OPTIONS, in either
\* case
KnownMethod(method) == method \in HttpMethods \cup LowerCaseMethods

\* C15 (HTTP methods): an api route is accepted only if its method is one
\* of GET, POST, PUT, DELETE, PATCH, HEAD, OPTIONS, and a route declared
\* with any other method yields diagnostic E6001.
C15_OnlyKnownMethodsAccepted ==
    mk_phase \in {"report", "exit"} /\ error_count = 0
       => /\ \A j \in 1..Len(program_module.api_routes) :
                KnownMethod(program_module.api_routes[j].method)
          /\ \A i \in 1..Len(lex_tokens) :
                RouteDeclaredAt(i) /\ ~KnownMethod(lex_tokens[i + 1].tok.text)
                   => Reported(6001)

\* s is t, or t with elements added at its end
IsPrefix(s, t) == Len(s) <= Len(t) /\ SubSeq(t, 1, Len(s)) = s

\* no name has two records in the list of resolved modules, and none two
\* nodes in the dependency graph
NoModuleTwice ==
    /\ \A i, j \in 1..Len(resolved_modules) :
          resolved_modules[i].module_name = resolved_modules[j].module_name
             => i = j
    /\ \A i, j \in 1..Len(graph_modules) :
          graph_modules[i] = graph_modules[j] => i = j

\* the module the last call of resolve_module returned
ReturnedModule ==
    resolved_modules[CHOOSE i \in 1..Len(resolved_modules) :
                        resolved_modules[i].module_name = mod_last.a]

C19_MissingFileYieldsE5001 ==
    mod_last.op = "resolve_module" /\ mod_last.ret /\ ~ReturnedModule.exists
       => mod_last.code = 5001

\* the program is a function g and a function f whose body calls g
CallsDeclaredFunction ==
    /\ tc_program \in CallPrograms
    /\ tc_program[2].body.expr.callee.name = "g"

\* the arguments of the call in f, and the parameters g is declared with
CallArguments == tc_program[2].body.expr.args

DeclaredParameters == tc_program[1].params

\* C20 (call arity): for a call to a function declared in the program, E2003
\* is reported exactly when the number of arguments differs from the number
\* of parameters of the function's declaration, and a call with the declared
\* number of Int arguments to Int parameters passes checking.
C20_ArityComparedWithDeclaration ==
    CheckFinished /\ CallsDeclaredFunction =>
       /\ Reported(2003) <=> Len(CallArguments) # Len(DeclaredParameters)
       /\ Len(CallArguments) = Len(DeclaredParameters)
          /\ (\A i \in 1..Len(CallArguments) : CallArguments[i] = Literal("Int"))
             => tc_status = "passed"

\* the string literal a call of lexer_next_token returned has its closing quote
StringClosed(src, call) ==
    call.tok.type = "TOK_STRING_LITERAL" =>
        scan_string_b(src, [LexerBInit EXCEPT !.position = call.start + 1])
            .position < Len(src)

\* the text has no character the lexer does not know and no string literal
\* left open, and no production of the parser returned NULL on it
SyntacticallyValid(src) ==
    /\ parser_parse_source(src).nulls = 0
    /\ \A i \in 1..Len(parser_parse_source(src).trace) :
          /\ parser_parse_source(src).trace[i].tok.type # "TOK_INVALID"
          /\ StringClosed(src, parser_parse_source(src).trace[i])

\* C16 (format idempotence): for every syntactically valid input s, the
\* formatter run on its own output prints that output again, character for
\* character: format(format(s)) = format(s).
C16_FormatIdempotent ==
    fmt_impl = "B" /\ SyntacticallyValid(fmt_text[1]) =>
        \A k \in 2..(Len(fmt_text) - 1) : fmt_text[k + 1] = fmt_text[k]

\* a function and a route, which the formatter prints in the other order,
\* formatted twice
C16_Witness ==
    /\ fmt_impl = "B"
    /\ Len(fmt_text) >= 3
    /\ fmt_text[1] = FunctionThenRoute
    /\ SyntacticallyValid(fmt_text[1])
    /\ fmt_text[2] # fmt_text[1]

\* the source text is syntactically valid for the parser that reads it:
\* parse_program reports nothing and returns, and for the parser linked
\* into mkc, which reports nothing at all, SyntacticallyValid
ValidSource ==
    IF fmt_impl = "A"
    THEN fmt_asts # <<>> /\ fmt_asts[1].diags = <<>> /\ ~fmt_asts[1].hung
    ELSE SyntacticallyValid(fmt_text[1])

\* C17 (round trip): for every syntactically valid input s, parsing what the
\* formatter printed for s yields the syntax tree that parsing s yielded,
\* source locations aside: the same declarations with the same names,
\* parameters, return types and bodies.
C17_ReparseYieldsSameTree ==
    ValidSource /\ Len(fmt_asts) >= 2 => fmt_asts[2] = fmt_asts[1]

\* some cycle of the edges deps can be reached from the registered module
\* start
CycleReachableFrom(mods, deps, start) ==
    /\ IndexOf(mods, start) # 0
    /\ \E e \in deps :
          /\ e[1] \in ReachFrom(deps, {IndexOf(mods, start)})
          /\ e[1] \in ReachFrom(deps, {e[2]})

\* C25 (cycle detection): on every dependency graph the resolver builds,
\* detect_cycle returns, and returns true exactly when a cycle can be reached
\* from the start module along dependency edges; a start module that is not
\* registered gives false.
C25_DetectCycleExact ==
    \A start \in ModuleNames :
        detect_cycle(graph_modules, dependencies, start)
            = CycleReachableFrom(graph_modules, dependencies, start)

\* add_dependency has refused an edge because of a cycle, and the graph
\* holds a cycle that one registered module reaches and another does not
C25_Witness ==
    /\ mod_last.op = "add_dependency"
    /\ mod_last.code = 5004
    /\ \E s1 \in ModuleNames, s2 \in ModuleNames :
          /\ detect_cycle(graph_modules, dependencies, s1)
          /\ IndexOf(graph_modules, s2) # 0
          /\ ~detect_cycle(graph_modules, dependencies, s2)

\* C24 (scope exit): an exit_scope that leaves a scope makes resolve_symbol
\* return for every name what it returned just before the matching
\* enter_scope, whatever was declared in between; an exit_scope on the global
\* scope changes nothing.
C24_ExitRestoresResolution ==
    [][sym_last'.op = "exit_scope" =>
          IF Len(scopes) = 1
          THEN scopes' = scopes /\ sym_saved' = sym_saved
          ELSE symbols_resolved(scopes') = sym_saved[Len(sym_saved)]]_vars

\* a scope nested in a scope that declares a name of the global scope again
\* has been left
C24_Witness ==
    /\ sym_last.op = "exit_scope"
    /\ Len(scopes) = 2
    /\ \E name \in Names :
          /\ symbols_resolved(scopes)[name][1] = 2
          /\ symbols_resolved(<<scopes[1]>>)[name][1] = 1

\* the declaration the second pass of type_check_module checks next
NextDeclaration == tc_program[tc_next]

Generated == mk_phase \in {"report", "exit"} /\ openapi_spec # <<>>

\* the members of the "paths" object of the document, in document order:
\* the name of the member, the one method its value is keyed by, and
\* whether that method's responses["200"] carries a schema
RECURSIVE PathsMembersFrom(_)
PathsMembersFrom(k) ==
    IF k + 12 > Len(openapi_spec) THEN <<>>
    ELSE IF openapi_spec[k] = "    \""
    THEN <<[path |-> openapi_spec[k + 1], method |-> openapi_spec[k + 4],
            schema |-> /\ openapi_spec[k + 6] = "        \"responses\": {\n"
                       /\ openapi_spec[k + 7] = "          \"200\": {\n"
                       /\ openapi_spec[k + 11] = "                \"schema\": {\n"
                       /\ openapi_spec[k + 12]
                              = "                  \"type\": \"string\"\n"]>>
         \o PathsMembersFrom(k + 13)
    ELSE PathsMembersFrom(k + 1)

\* paths[path] of the document read as JSON: an object holds one value per
\* name, and of two members of the same name the later one is the value
HasPathItem(members, path) ==
    \E i \in 1..Len(members) : members[i].path = path

PathItem(members, path) ==
    members[CHOOSE i \in 1..Len(members) :
                /\ members[i].path = path
                /\ \A j \in (i + 1)..Len(members) : members[j].path # path]

\* C21 (OpenAPI shape): for every route of the program, the document read
\* as JSON has paths[path][method].responses["200"], and it carries a schema.
C21_EveryRouteInPaths ==
    Generated =>
        \A j \in 1..Len(program_module.api_routes) :
            /\ HasPathItem(PathsMembersFrom(1), program_module.api_routes[j].path)
            /\ PathItem(PathsMembersFrom(1),
                        program_module.api_routes[j].path).method
                   = program_module.api_routes[j].method
            /\ PathItem(PathsMembersFrom(1),
                        program_module.api_routes[j].path).schema

\* the text of the token the lexer returned i-th
TextAt(i) == lex_tokens[i].tok.text

\* the number of tokens between the parentheses of the function declared at
\* token i: none, or one parameter "name : type"
ParameterTokens(i) ==
    IF TypeAt(i + 3) = "TOK_RPAREN" THEN 0
    ELSE IF /\ TypeAt(i + 3) = "TOK_IDENTIFIER" /\ TypeAt(i + 4) = "TOK_COLON"
            /\ TypeAt(i + 5) = "TOK_IDENTIFIER" /\ TypeAt(i + 6) = "TOK_RPAREN"
    THEN 3
    ELSE -1

\* a function is declared at token i: fn, a name, a parameter list, '->', a
\* return type, and a body that is one tail expression: a literal or a name
FunctionDeclaredAt(i) ==
    /\ TypeAt(i) = "TOK_FN"
    /\ TypeAt(i + 1) = "TOK_IDENTIFIER"
    /\ TypeAt(i + 2) = "TOK_LPAREN"
    /\ ParameterTokens(i) >= 0
    /\ TypeAt(i + ParameterTokens(i) + 4) = "TOK_ARROW"
    /\ TypeAt(i + ParameterTokens(i) + 5) = "TOK_IDENTIFIER"
    /\ TypeAt(i + ParameterTokens(i) + 6) = "TOK_LBRACE"
    /\ TypeAt(i + ParameterTokens(i) + 7)
          \in {"TOK_STRING_LITERAL", "TOK_INT_LITERAL", "TOK_IDENTIFIER"}
    /\ TypeAt(i + ParameterTokens(i) + 8) = "TOK_RBRACE"

\* the lowering of a tail expression that is one token
LoweredExpression(i) ==
    IF TypeAt(i) = "TOK_STRING_LITERAL" THEN <<"\"", TextAt(i), "\"">>
    ELSE <<TextAt(i)>>

\* function f(p1, ..., pn) { return <expr>; } for the function declared at i
LoweredFunction(i) ==
    <<"function ", TextAt(i + 1), "(">>
    \o (IF ParameterTokens(i) = 3 THEN <<TextAt(i + 3)>> ELSE <<>>)
    \o <<") ", "{\n", "    return ">>
    \o LoweredExpression(i + ParameterTokens(i) + 7)
    \o <<";\n", "}\n">>

\* the strings part follow one another somewhere in code
Contains(code, part) ==
    \E k \in 0..(Len(code) - Len(part)) :
        SubSeq(code, k + 1, k + Len(part)) = part

\* C22 (function lowering): every function declaration f(p1, ..., pn) with
\* tail expression e is lowered to a JavaScript function of the same name and
\* parameters whose body returns the lowering of e.
C22_FunctionsLowered ==
    Emitted =>
        \A i \in 1..Len(lex_tokens) :
            FunctionDeclaredAt(i) => Contains(js_code, LoweredFunction(i))

(***************************************************************************)
(* C27: in every interleaving of the worker thread with                     *)
(* manaknight_stop_http_server, no accept call is made with                 *)
(* http_server_socket once stop has closed that descriptor or reset it to   *)
(* -1: every accept call the worker made was made while stop had not yet    *)
(* reached its close.                                                       *)
(***************************************************************************)
StopHasClosed == {"stop_reset", "stop_join", "stopped"}

C27_NoAcceptAfterClose ==
    \A call \in srv_accepts : call.stop \notin StopHasClosed

(***************************************************************************)
(* C26: once manaknight_start_http_server has succeeded, every call of      *)
(* manaknight_stop_http_server eventually returns: the worker leaves its    *)
(* loop and is joined, whatever it was doing when stop was called.          *)
(***************************************************************************)
C26_StopReturns ==
    (srv_main = "stop_close") ~> (srv_main = "stopped")

(***************************************************************************)
(* C28: checked Int64 arithmetic.  For operands in the signed 64-bit range  *)
(* add, sub and mul return exactly a+b, a-b or a*b when that integer lies   *)
(* in [-2^63, 2^63-1], and signal integer overflow when it does not; a      *)
(* value that is returned is never wrapped or otherwise inexact.            *)
(***************************************************************************)
Exact(fn, a, b) ==
    CASE fn = "add" -> BigIntAdd(toBigInt(a), toBigInt(b))
      [] fn = "sub" -> BigIntSub(toBigInt(a), toBigInt(b))
      [] fn = "mul" -> BigIntMul(toBigInt(a), toBigInt(b))

InInt64(i) == ~BigIntLess(i, INT64_MIN) /\ ~BigIntLess(INT64_MAX, i)

C28_CheckedArithmeticExact ==
    (rt_input # <<>> /\ rt_input.fn = "math" /\ rt_output # <<>>) =>
        LET call == rt_output[1]
            exact == Exact(call.fn, rt_input.a, rt_input.b)
        IN  IF InInt64(exact)
            THEN /\ call.result.tag = "return"
                 /\ toBigInt(call.result.value) = exact
            ELSE call.result.tag = "throw"

(***************************************************************************)
(* C29: mapList of the runtime agrees with its definition in list.mk: the   *)
(* result has the length of the input and its i-th element is f applied to  *)
(* the i-th element of the input, in the same order.                        *)
(***************************************************************************)
RECURSIVE listToArray(_)
listToArray(list) ==
    IF list.tag = "cons" THEN <<list.head>> \o listToArray(list.tail)
    ELSE <<>>

C29_MapListAgrees ==
    (rt_input # <<>> /\ rt_input.fn = "list" /\ rt_output # <<>>) =>
        LET input == listToArray(rt_input.list)
            result == listToArray(rt_output[1].result)
        IN  /\ rt_output[1].result = mapList_mk(rt_input.list, rt_input.f)
            /\ Len(result) = Len(input)
            /\ \A i \in 1..Len(input) :
                    result[i] = Apply(rt_input.f, input[i])

(***************************************************************************)
(* C30: the map lookup law.  getMap(setMap(m, k, v), k2) is some(v) when    *)
(* k2 is structurally equal to k, and is getMap(m, k2) when it is not;      *)
(* setMap leaves m itself as it was.                                        *)
(***************************************************************************)
C30_MapLookupLaw ==
    (rt_input # <<>> /\ rt_input.fn = "map" /\ Len(rt_output) = 2) =>
        /\ rt_output[1].result.map = rt_input.map
        /\ rt_output[2].result =
              IF equals(rt_input.key2, rt_input.key)
              THEN Some(rt_input.value)
              ELSE getMap(rt_input.map, rt_input.key2)

=============================================================================
